---------------------------- MODULE Spec2Model ----------------------------
(***************************************************************************)
(* Model of src/tools/query_converter.py: the SPL / LEQL / WQL query       *)
(* translator (class QueryConverter) and of its caller in src/main.py.     *)
(*                                                                         *)
(* A Python str is modelled as a sequence of one-character strings, so     *)
(* that splitting, searching, stripping and formatting are computed and    *)
(* not assumed.  Python's None is the record NoneVal; an optional value v  *)
(* that is present is Some(v).                                             *)
(***************************************************************************)
EXTENDS Integers, Sequences, FiniteSets, TLC

(***************************************************************************)
(* Python values                                                           *)
(***************************************************************************)
NoneVal == [some |-> FALSE]
Some(v) == [some |-> TRUE, v |-> v]

\* bool(x) of an Optional[str]: None and '' are falsy.
Truthy(o) == o.some /\ o.v # <<>>

\* The outcome of a call: a returned value, or a raised exception with its
\* type and its str().
Return(v) == [raised |-> FALSE, value |-> v]

Raise(type, msg) == [raised |-> TRUE, type |-> type, msg |-> msg]

\* str(IndexError) of an out-of-range list subscript
IndexErrorMsg ==
    <<"l", "i", "s", "t", " ", "i", "n", "d", "e", "x", " ", "o", "u", "t",
      " ", "o", "f", " ", "r", "a", "n", "g", "e">>

\* l[k-1] in Python terms: the k-th element, or IndexError
Item(l, k) ==
    IF k \in DOMAIN l THEN Return(l[k]) ELSE Raise("IndexError", IndexErrorMsg)

(***************************************************************************)
(* str methods                                                             *)
(***************************************************************************)
\* Characters str.strip() / str.split() / the regex class \s treat as space.
Whitespace == {" ", "\t", "\n", "\r"}

\* s[i-1:] in Python terms: the suffix of s starting at 1-based index i.
Drop(s, i) == IF i > Len(s) THEN <<>> ELSE SubSeq(s, i, Len(s))

\* s[from-1:to-1] in Python terms: the characters at 1-based from .. to-1.
Slice(s, from, to) == IF to <= from THEN <<>> ELSE SubSeq(s, from, to - 1)

\* s.startswith(p, i-1): p occurs in s at 1-based index i.
StartsWithAt(s, p, i) ==
    /\ i >= 1
    /\ i + Len(p) - 1 <= Len(s)
    /\ \A k \in 1..Len(p) : s[i + k - 1] = p[k]

StartsWith(s, p) == StartsWithAt(s, p, 1)

EndsWith(s, p) == Len(p) <= Len(s) /\ StartsWithAt(s, p, Len(s) - Len(p) + 1)

\* s.find(p, i-1) + 1: the first 1-based index >= i where p occurs, 0 if none.
RECURSIVE Find(_, _, _)
Find(s, p, i) ==
    IF i + Len(p) - 1 > Len(s) THEN 0
    ELSE IF StartsWithAt(s, p, i) THEN i
    ELSE Find(s, p, i + 1)

\* p in s
Contains(s, p) == Find(s, p, 1) # 0

\* s.lstrip(chars)
RECURSIVE LStripChars(_, _)
LStripChars(s, chars) ==
    IF s # <<>> /\ Head(s) \in chars THEN LStripChars(Tail(s), chars) ELSE s

\* s.rstrip(chars)
RECURSIVE RStripChars(_, _)
RStripChars(s, chars) ==
    IF s # <<>> /\ s[Len(s)] \in chars
    THEN RStripChars(SubSeq(s, 1, Len(s) - 1), chars)
    ELSE s

\* s.strip(chars)
StripChars(s, chars) == RStripChars(LStripChars(s, chars), chars)

\* s.strip()
Strip(s) == StripChars(s, Whitespace)

\* s.split(sep), sep non-empty: the pieces between the non-overlapping
\* occurrences of sep, found left to right.
RECURSIVE Split(_, _)
Split(s, sep) ==
    LET i == Find(s, sep, 1)
    IN  IF i = 0 THEN <<s>>
        ELSE <<Slice(s, 1, i)>> \o Split(Drop(s, i + Len(sep)), sep)

\* s.split(sep, 1): at most one split.
Split1(s, sep) ==
    LET i == Find(s, sep, 1)
    IN  IF i = 0 THEN <<s>>
        ELSE <<Slice(s, 1, i), Drop(s, i + Len(sep))>>

\* The end (exclusive, 1-based) of the maximal run of characters of s that
\* satisfy "in cls" (or "not in cls" when neg) starting at index i.
RECURSIVE RunEnd(_, _, _, _)
RunEnd(s, i, cls, neg) ==
    IF i <= Len(s) /\ ((s[i] \in cls) # neg)
    THEN RunEnd(s, i + 1, cls, neg)
    ELSE i

\* s.split(): the maximal runs of non-whitespace characters.
RECURSIVE SplitWS(_)
SplitWS(s) ==
    LET b == RunEnd(s, 1, Whitespace, FALSE)
        e == RunEnd(s, b, Whitespace, TRUE)
    IN  IF b > Len(s) THEN <<>>
        ELSE <<Slice(s, b, e)>> \o SplitWS(Drop(s, e))

\* s.replace(p, ''), p non-empty: every non-overlapping occurrence removed.
RECURSIVE Remove(_, _)
Remove(s, p) ==
    LET i == Find(s, p, 1)
    IN  IF i = 0 THEN s
        ELSE Slice(s, 1, i) \o Remove(Drop(s, i + Len(p)), p)

\* sep.join(parts)
RECURSIVE Join(_, _)
Join(parts, sep) ==
    IF parts = <<>> THEN <<>>
    ELSE IF Len(parts) = 1 THEN parts[1]
    ELSE parts[1] \o sep \o Join(Tail(parts), sep)

\* The ASCII letters and digits.
LowerLetters ==
 <<"a", "b", "c", "d", "e", "f", "g", "h", "i", "j", "k", "l", "m",
    "n", "o", "p", "q", "r", "s", "t", "u", "v", "w", "x", "y", "z">>

UpperLetters ==
 <<"A", "B", "C", "D", "E", "F", "G", "H", "I", "J", "K", "L", "M",
    "N", "O", "P", "Q", "R", "S", "T", "U", "V", "W", "X", "Y", "Z">>

Digits == {"0", "1", "2", "3", "4", "5", "6", "7", "8", "9"}

Range(f) == {f[i] : i \in DOMAIN f}

IndexOf(seq, c) == CHOOSE i \in DOMAIN seq : seq[i] = c

\* s.upper() / s.lower()
UpperOf(c) ==
    IF c \in Range(LowerLetters) THEN UpperLetters[IndexOf(LowerLetters, c)] ELSE c

LowerOf(c) ==
    IF c \in Range(UpperLetters) THEN LowerLetters[IndexOf(UpperLetters, c)] ELSE c

Upper(s) == [i \in 1..Len(s) |-> UpperOf(s[i])]

Lower(s) == [i \in 1..Len(s) |-> LowerOf(s[i])]

(***************************************************************************)
(* The data model                                                          *)
(***************************************************************************)
\* class QueryLanguage(Enum): the members, in definition order, and .value
SPL == "SPL"
LEQL == "LEQL"
WQL == "WQL"

QueryLanguage == <<SPL, LEQL, WQL>>

LangValue(lang) ==
    CASE lang = SPL -> <<"s", "p", "l">>
      [] lang = LEQL -> <<"l", "e", "q", "l">>
      [] lang = WQL -> <<"w", "q", "l">>

\* @dataclass TimeRange: both bounds default to None
TimeRange(earliest, latest) == [earliest |-> earliest, latest |-> latest]

\* @dataclass SearchTerm, with its defaults
SearchTerm(field, value, operator, is_wildcard, is_grouped) ==
    [kind |-> "SearchTerm", value |-> value, field |-> field,
     operator |-> operator, is_wildcard |-> is_wildcard,
     is_grouped |-> is_grouped]

\* A plain str in a search_terms list (List[Union[SearchTerm, str]]).
StrTerm(s) == [kind |-> "str", value |-> s]

\* isinstance(term, SearchTerm)
IsSearchTerm(term) == term.kind = "SearchTerm"

\* @dataclass SPLQuery
SPLQuery(search_terms, time_range, commands, subsearches, lookups) ==
    [search_terms |-> search_terms, time_range |-> time_range,
     commands |-> commands, subsearches |-> subsearches, lookups |-> lookups]

\* "x if x else None" for a list
ListOrNone(l) == IF l # <<>> THEN Some(l) ELSE NoneVal

\* "time_range" returned as it is, without "if ... else None"
TimeRangeAlways(tr) == Some(tr)

\* "time_range if time_range.earliest or time_range.latest else None"
TimeRangeOrNone(tr) ==
    IF Truthy(tr.earliest) \/ Truthy(tr.latest) THEN Some(tr) ELSE NoneVal

(***************************************************************************)
(* _parse_spl                                                              *)
(***************************************************************************)
\* The regex class [a-zA-Z0-9_\.]
IdentChars == Range(LowerLetters) \cup Range(UpperLetters) \cup Digits \cup {"_", "."}

NoMatch == [ok |-> FALSE]

\* time_pattern = r'(earliest|latest)=([^\s]+)' matched at index i
TimeMatchAt(s, i) ==
    LET alt(word) ==
            LET vs == i + Len(word) + 1
                ve == RunEnd(s, vs, Whitespace, TRUE)
            IN  IF StartsWithAt(s, word \o <<"=">>, i) /\ ve > vs
                THEN [ok |-> TRUE, end |-> ve, text |-> Slice(s, i, ve),
                      modifier |-> word, value |-> Slice(s, vs, ve)]
                ELSE NoMatch
        m1 == alt(<<"e", "a", "r", "l", "i", "e", "s", "t">>)
    IN  IF m1.ok THEN m1 ELSE alt(<<"l", "a", "t", "e", "s", "t">>)

\* re.finditer(time_pattern, s): the non-overlapping matches, leftmost first
RECURSIVE TimeMatches(_, _)
TimeMatches(s, i) ==
    IF i > Len(s) THEN <<>>
    ELSE LET m == TimeMatchAt(s, i)
         IN  IF m.ok THEN <<m>> \o TimeMatches(s, m.end)
             ELSE TimeMatches(s, i + 1)

\* The loop over time_matches: sets the bound and removes the matched text.
RECURSIVE TimeLoop(_, _, _)
TimeLoop(ms, time_range, search_part) ==
    IF ms = <<>> THEN [time_range |-> time_range, search_part |-> search_part]
    ELSE LET m == Head(ms)
             tr == IF m.modifier = <<"e", "a", "r", "l", "i", "e", "s", "t">>
                   THEN [time_range EXCEPT !.earliest = Some(m.value)]
                   ELSE [time_range EXCEPT !.latest = Some(m.value)]
         IN  TimeLoop(Tail(ms), tr, Strip(Remove(search_part, m.text)))

\* subsearch_pattern = r'\[(.*?)\]' matched at index i ('.' matches no newline)
SubsearchMatchAt(s, i) ==
    LET j == RunEnd(s, i + 1, {"]", "\n"}, TRUE)
    IN  IF i <= Len(s) /\ s[i] = "[" /\ j <= Len(s) /\ s[j] = "]"
        THEN [ok |-> TRUE, end |-> j + 1, text |-> Slice(s, i, j + 1),
              inner |-> Slice(s, i + 1, j)]
        ELSE NoMatch

RECURSIVE SubsearchMatches(_, _)
SubsearchMatches(s, i) ==
    IF i > Len(s) THEN <<>>
    ELSE LET m == SubsearchMatchAt(s, i)
         IN  IF m.ok THEN <<m>> \o SubsearchMatches(s, m.end)
             ELSE SubsearchMatches(s, i + 1)

RECURSIVE SubsearchLoop(_, _, _)
SubsearchLoop(ms, subsearches, search_part) ==
    IF ms = <<>> THEN [subsearches |-> subsearches, search_part |-> search_part]
    ELSE SubsearchLoop(Tail(ms), Append(subsearches, Head(ms).inner),
                       Strip(Remove(search_part, Head(ms).text)))

\* The alternation (=|!=|>|<|>=|<=) of field_pattern, in the order written.
FieldOperators ==
    << <<"=">>, <<"!", "=">>, <<">">>, <<"<">>, <<">", "=">>, <<"<", "=">> >>

\* The tail of field_pattern, \s*(op)\s*([^\s]+), from index p with the k-th
\* alternative tried first: a regex alternation takes the first alternative
\* with which the rest of the pattern matches.
RECURSIVE FieldOpAt(_, _, _)
FieldOpAt(s, p, k) ==
    IF k > Len(FieldOperators) THEN NoMatch
    ELSE LET op == FieldOperators[k]
             vs == RunEnd(s, p + Len(op), Whitespace, FALSE)
             ve == RunEnd(s, vs, Whitespace, TRUE)
         IN  IF StartsWithAt(s, op, p) /\ ve > vs
             THEN [ok |-> TRUE, end |-> ve, operator |-> op,
                   value |-> Slice(s, vs, ve)]
             ELSE FieldOpAt(s, p, k + 1)

\* field_pattern = r'([a-zA-Z0-9_\.]+)\s*(=|!=|>|<|>=|<=)\s*([^\s]+)' matched
\* at index i.  The field and the spaces are greedy; giving back part of
\* either leaves a field character or a space where the operator must start,
\* so only the greedy split can match.
FieldMatchAt(s, i) ==
    LET fe == RunEnd(s, i, IdentChars, FALSE)
        p == RunEnd(s, fe, Whitespace, FALSE)
        m == FieldOpAt(s, p, 1)
    IN  IF fe > i /\ m.ok
        THEN [ok |-> TRUE, end |-> m.end, text |-> Slice(s, i, m.end),
              field |-> Slice(s, i, fe), operator |-> m.operator,
              value |-> m.value]
        ELSE NoMatch

RECURSIVE FieldMatches(_, _)
FieldMatches(s, i) ==
    IF i > Len(s) THEN <<>>
    ELSE LET m == FieldMatchAt(s, i)
         IN  IF m.ok THEN <<m>> \o FieldMatches(s, m.end)
             ELSE FieldMatches(s, i + 1)

\* "Handle quoted values": value[1:-1] when wrapped in " or in '
Unquote(value) ==
    IF StartsWith(value, <<"\"">>) /\ EndsWith(value, <<"\"">>)
    THEN Slice(value, 2, Len(value))
    ELSE IF StartsWith(value, <<"'">>) /\ EndsWith(value, <<"'">>)
    THEN Slice(value, 2, Len(value))
    ELSE value

\* The loop over field_matches
RECURSIVE FieldLoop(_, _, _)
FieldLoop(ms, search_terms, and_part) ==
    IF ms = <<>> THEN [search_terms |-> search_terms, and_part |-> and_part]
    ELSE LET m == Head(ms)
             term == SearchTerm(Some(m.field), Unquote(m.value), m.operator,
                                FALSE, FALSE)
         IN  FieldLoop(Tail(ms), Append(search_terms, term),
                       Strip(Remove(and_part, m.text)))

\* wildcard_pattern = r'([a-zA-Z0-9_\.]*\*[a-zA-Z0-9_\.]*)' matched at index i
WildcardMatchAt(s, i) ==
    LET fe == RunEnd(s, i, IdentChars, FALSE)
        e == RunEnd(s, fe + 1, IdentChars, FALSE)
    IN  IF fe <= Len(s) /\ s[fe] = "*"
        THEN [ok |-> TRUE, end |-> e, text |-> Slice(s, i, e)]
        ELSE NoMatch

RECURSIVE WildcardMatches(_, _)
WildcardMatches(s, i) ==
    IF i > Len(s) THEN <<>>
    ELSE LET m == WildcardMatchAt(s, i)
         IN  IF m.ok THEN <<m>> \o WildcardMatches(s, m.end)
             ELSE WildcardMatches(s, i + 1)

\* The loop over wildcard_matches
RECURSIVE WildcardLoop(_, _, _)
WildcardLoop(ms, search_terms, and_part) ==
    IF ms = <<>> THEN [search_terms |-> search_terms, and_part |-> and_part]
    ELSE LET term == SearchTerm(Some(Head(ms).text), <<"*">>, <<"=">>, TRUE, FALSE)
         IN  WildcardLoop(Tail(ms), Append(search_terms, term),
                          Strip(Remove(and_part, Head(ms).text)))

\* The body of "for and_part in and_parts": fielded terms, then wildcard
\* terms, then what is left as plain strings.
AndPartTerms(search_terms, and_part) ==
    LET f == FieldLoop(FieldMatches(and_part, 1), search_terms, and_part)
        w == WildcardLoop(WildcardMatches(f.and_part, 1), f.search_terms,
                          f.and_part)
        remaining_terms == SplitWS(w.and_part)
    IN  w.search_terms \o [i \in 1..Len(remaining_terms) |->
                             StrTerm(Strip(remaining_terms[i]))]

RECURSIVE AndLoop(_, _)
AndLoop(and_parts, search_terms) ==
    IF and_parts = <<>> THEN search_terms
    ELSE AndLoop(Tail(and_parts), AndPartTerms(search_terms, Head(and_parts)))

RECURSIVE OrLoop(_, _)
OrLoop(or_parts, search_terms) ==
    IF or_parts = <<>> THEN search_terms
    ELSE OrLoop(Tail(or_parts),
                AndLoop(Split(Head(or_parts), <<" ", "A", "N", "D", " ">>),
                        search_terms))

\* "Parse search terms with boolean operators"
SearchTerms(search_part) == OrLoop(Split(search_part, <<" ", "O", "R", " ">>), <<>>)

\* [x for x in l if x not in excluded]
RECURSIVE Without(_, _)
Without(l, excluded) ==
    IF l = <<>> THEN <<>>
    ELSE IF Head(l) \in excluded THEN Without(Tail(l), excluded)
    ELSE <<Head(l)>> \o Without(Tail(l), excluded)

\* "while len(cmd_parts) > 0 and cmd_parts[0] not in stops": the leading
\* elements of l up to the first one in stops
RECURSIVE TakeUntil(_, _)
TakeUntil(l, stops) ==
    IF l = <<>> \/ Head(l) \in stops THEN <<>>
    ELSE <<Head(l)>> \o TakeUntil(Tail(l), stops)

\* The body of "for part in parts[1:]" for a part with tokens cmd_parts:
\* the command appended to commands and the lookups appended to lookups.
ParseCommand(cmd_parts) ==
    LET name == cmd_parts[1]
        rest == Tail(cmd_parts)
    IN  IF Upper(name) = <<"B", "Y">>
        THEN [cmd |-> [name |-> name,
                       args |-> <<<<"b", "y">>>>
                                \o Without(rest, {<<"|">>, <<"B", "Y">>})],
              lookups |-> <<>>]
        ELSE IF Upper(name) = <<"A", "S">>
        THEN [cmd |-> [name |-> name,
                       args |-> <<<<"a", "s">>>>
                                \o (IF Len(rest) > 0 THEN <<rest[1]>> ELSE <<>>)],
              lookups |-> <<>>]
        ELSE IF Upper(name) = <<"L", "O", "O", "K", "U", "P">>
        THEN [cmd |-> [name |-> name, args |-> <<>>],
              lookups |-> <<[type |-> "lookup",
                             args |-> TakeUntil(rest, {<<"|">>, <<"A", "S">>})]>>]
        ELSE [cmd |-> [name |-> name, args |-> cmd_parts], lookups |-> <<>>]

\* "Parse commands": the loop over parts[1:]
RECURSIVE CommandLoop(_, _, _)
CommandLoop(parts, commands, lookups) ==
    IF parts = <<>> THEN [commands |-> commands, lookups |-> lookups]
    ELSE LET cmd_parts == SplitWS(Strip(Head(parts)))
         IN  IF cmd_parts # <<>>
             THEN LET c == ParseCommand(cmd_parts)
                  IN  CommandLoop(Tail(parts), Append(commands, c.cmd),
                                  lookups \o c.lookups)
             ELSE CommandLoop(Tail(parts), commands, lookups)

\* def _parse_spl(self, query) -> SPLQuery
_parse_spl(q) ==
    LET parts == Split(q, <<"|">>)
        part0 == Item(parts, 1)
        search_part0 == Strip(part0.value)
        t == TimeLoop(TimeMatches(search_part0, 1),
                      TimeRange(NoneVal, NoneVal), search_part0)
        s == SubsearchLoop(SubsearchMatches(t.search_part, 1), <<>>,
                           t.search_part)
        search_terms == SearchTerms(s.search_part)
        c == CommandLoop(Tail(parts), <<>>, <<>>)
    IN  IF part0.raised THEN part0
        ELSE Return(SPLQuery(search_terms, TimeRangeOrNone(t.time_range),
                             ListOrNone(c.commands), ListOrNone(s.subsearches),
                             ListOrNone(c.lookups)))

(***************************************************************************)
(* _parse_leql                                                             *)
(***************************************************************************)
\* "a, b = l": the two elements of l, or ValueError when l has not two
Unpack2(l) ==
    IF Len(l) = 2 THEN Return(l)
    ELSE IF Len(l) > 2
    THEN Raise("ValueError",
               <<"t", "o", "o", " ", "m", "a", "n", "y", " ",
                 "v", "a", "l", "u", "e", "s", " ", "t", "o", " ", "u",
                 "n", "p", "a", "c", "k", " ", "(", "e", "x", "p", "e",
                 "c", "t", "e", "d", " ", "2", ")">>)
    ELSE Raise("ValueError",
               <<"n", "o", "t", " ", "e", "n", "o", "u", "g", "h", " ",
                 "v", "a", "l", "u", "e", "s", " ", "t", "o", " ", "u",
                 "n", "p", "a", "c", "k", " ", "(", "e", "x", "p", "e",
                 "c", "t", "e", "d", " ", "2", ",", " ", "g", "o", "t",
                 " ", IF Len(l) = 0 THEN "0" ELSE "1", ")">>)

\* "Handle where clause": the terms the where( clause of query adds
LeqlWhereTerms(q) ==
    LET where_start == Find(q, <<"w", "h", "e", "r", "e", "(">>, 1)
        where_end == Find(q, <<")">>, where_start)
        where_clause == Slice(q, where_start + 6, where_end)
        ICONTAINS == <<"I", "C", "O", "N", "T", "A", "I", "N", "S">>
        fv == Unpack2(Split1(where_clause, ICONTAINS))
    IN  IF where_start # 0 /\ where_end # 0 /\ Contains(where_clause, ICONTAINS)
        THEN IF fv.raised THEN fv
             ELSE Return(<<SearchTerm(
                      Some(Strip(fv.value[1])),
                      StripChars(Strip(fv.value[2]), {"\"", "'"}),
                      <<"i", "c", "o", "n", "t", "a", "i", "n", "s">>,
                      FALSE, FALSE)>>)
        ELSE Return(<<>>)

\* "Handle groupby clause": the commands the groupby( clause of query adds
LeqlGroupbyCommands(q) ==
    LET groupby_start == Find(q, <<"g", "r", "o", "u", "p", "b", "y", "(">>, 1)
        groupby_end == Find(q, <<")">>, groupby_start)
        groupby_clause == Slice(q, groupby_start + 8, groupby_end)
    IN  IF groupby_start # 0 /\ groupby_end # 0
        THEN <<[name |-> <<"g", "r", "o", "u", "p", "b", "y">>,
                args |-> <<Strip(groupby_clause)>>]>>
        ELSE <<>>

\* def _parse_leql(self, query) -> Dict
_parse_leql(q) ==
    LET terms == LeqlWhereTerms(q)
        time_range == TimeRange(NoneVal, NoneVal)
    IN  IF terms.raised THEN terms
        ELSE Return([search_terms |-> terms.value,
                     time_range |-> TimeRangeOrNone(time_range),
                     commands |-> ListOrNone(LeqlGroupbyCommands(q))])

(***************************************************************************)
(* _parse_wql                                                              *)
(***************************************************************************)
\* The body of "for time_part in time_parts": the bound the part sets
WqlTimePart(time_range, time_part) ==
    LET bound(sep) == Item(Split(time_part, sep), 2)
        set(b, which) ==
            IF b.raised THEN b
            ELSE Return(IF which = "earliest"
                        THEN [time_range EXCEPT !.earliest = Some(Strip(b.value))]
                        ELSE [time_range EXCEPT !.latest = Some(Strip(b.value))])
    IN  IF Contains(time_part, <<">", "=">>) THEN set(bound(<<">", "=">>), "earliest")
        ELSE IF Contains(time_part, <<"<", "=">>) THEN set(bound(<<"<", "=">>), "latest")
        ELSE IF Contains(time_part, <<">">>) THEN set(bound(<<">">>), "earliest")
        ELSE IF Contains(time_part, <<"<">>) THEN set(bound(<<"<">>), "latest")
        ELSE Return(time_range)

RECURSIVE WqlTimeLoop(_, _)
WqlTimeLoop(time_parts, time_range) ==
    IF time_parts = <<>> THEN Return(time_range)
    ELSE LET r == WqlTimePart(time_range, Head(time_parts))
         IN  IF r.raised THEN r ELSE WqlTimeLoop(Tail(time_parts), r.value)

\* WqlTerm with "part.split(sep)" for "part.split(sep, 1)": a clause with two
\* separators no longer unpacks into field and value
WqlTermSplitAll(part, sep, operator) ==
    LET fv == Unpack2(Split(part, sep))
    IN  IF fv.raised THEN fv
        ELSE Return(<<SearchTerm(Some(Strip(fv.value[1])), Strip(fv.value[2]),
                                 operator, FALSE, FALSE)>>)

\* "field, value = part.split(sep, 1)" and the SearchTerm appended for it
WqlTerm(part, sep, operator) ==
    LET fv == Unpack2(Split1(part, sep))
    IN  IF fv.raised THEN fv
        ELSE Return(<<SearchTerm(Some(Strip(fv.value[1])), Strip(fv.value[2]),
                                 operator, FALSE, FALSE)>>)

\* "term.is_grouped = True" for every term of a list
Grouped(terms) == [i \in DOMAIN terms |-> [terms[i] EXCEPT !.is_grouped = TRUE]]

RECURSIVE _parse_wql(_)

\* The body of "for part in parts": the branch the stripped part takes, as
\* the terms it appends and the time range it leaves.
WqlPart(st, part0) ==
    LET part == Strip(part0)
        has(p) == Contains(part, p)
        terms(r) == IF r.raised THEN r
                    ELSE Return([st EXCEPT !.search_terms = @ \o r.value])
    IN  IF StartsWith(part, <<"t", "i", "m", "e", ":">>)
        THEN LET r == WqlTimeLoop(Split(Strip(Drop(part, 6)), <<";">>),
                                  st.time_range)
             IN  IF r.raised THEN r
                 ELSE Return([st EXCEPT !.time_range = r.value])
        ELSE IF has(<<"=">>) THEN terms(WqlTerm(part, <<"=">>, <<"=">>))
        ELSE IF has(<<"!", "=">>)
        THEN terms(WqlTerm(part, <<"!", "=">>, <<"!", "=">>))
        ELSE IF has(<<">">>) /\ ~has(<<">", "=">>)
        THEN terms(WqlTerm(part, <<">">>, <<">">>))
        ELSE IF has(<<"<">>) /\ ~has(<<"<", "=">>)
        THEN terms(WqlTerm(part, <<"<">>, <<"<">>))
        ELSE IF has(<<">", "=">>)
        THEN terms(WqlTerm(part, <<">", "=">>, <<">", "=">>))
        ELSE IF has(<<"<", "=">>)
        THEN terms(WqlTerm(part, <<"<", "=">>, <<"<", "=">>))
        ELSE IF has(<<"~">>) THEN terms(WqlTerm(part, <<"~">>, <<"~">>))
        ELSE IF StartsWith(part, <<"(">>) /\ EndsWith(part, <<")">>)
        THEN LET inner_query == Strip(Slice(part, 2, Len(part)))
                 inner_terms == _parse_wql(inner_query)
             IN  IF inner_terms.raised THEN inner_terms
                 ELSE terms(Return(Grouped(inner_terms.value.search_terms)))
        ELSE Return(st)

RECURSIVE WqlLoop(_, _)
WqlLoop(parts, st) ==
    IF parts = <<>> THEN Return(st)
    ELSE LET r == WqlPart(st, Head(parts))
         IN  IF r.raised THEN r ELSE WqlLoop(Tail(parts), r.value)

\* def _parse_wql(self, query) -> Dict
_parse_wql(q) ==
    LET r == WqlLoop(Split(q, <<";">>),
                     [search_terms |-> <<>>,
                      time_range |-> TimeRange(NoneVal, NoneVal)])
    IN  IF r.raised THEN r
        ELSE Return([search_terms |-> r.value.search_terms,
                     time_range |-> TimeRangeOrNone(r.value.time_range)])

(***************************************************************************)
(* _spl_to_leql                                                            *)
(***************************************************************************)
\* x in l, and l.index(x) + 1
InList(l, x) == \E i \in DOMAIN l : l[i] = x

ListIndex(l, x) == CHOOSE i \in DOMAIN l : l[i] = x /\ \A j \in 1..(i - 1) : l[j] # x

\* LeqlTimeParts without "time_value = time_value[1:]": the minus sign stays
LeqlTimePartsKeepMinus(time_range) ==
    IF ~time_range.some THEN <<>>
    ELSE LET tr == time_range.v
         IN  (IF Truthy(tr.earliest)
              THEN <<<<"f", "r", "o", "m", " ">> \o tr.earliest.v>>
              ELSE <<>>)
             \o (IF Truthy(tr.latest)
                 THEN <<<<"t", "o", " ">> \o tr.latest.v>>
                 ELSE <<>>)

\* "Handle time range" of _spl_to_leql: the parts it appends
LeqlTimeParts(time_range) ==
    IF ~time_range.some THEN <<>>
    ELSE LET tr == time_range.v
             time_value == IF StartsWith(tr.earliest.v, <<"-">>)
                           THEN Drop(tr.earliest.v, 2)
                           ELSE tr.earliest.v
         IN  (IF Truthy(tr.earliest)
              THEN <<<<"f", "r", "o", "m", " ">> \o time_value>>
              ELSE <<>>)
             \o (IF Truthy(tr.latest)
                 THEN <<<<"t", "o", " ">> \o tr.latest.v>>
                 ELSE <<>>)

\* LeqlWhereClause with the quotes around the value left out
LeqlWhereClauseUnquoted(term) ==
    LET fielded == <<term.field.v \o <<" ">> \o term.operator \o <<" ">>
                     \o term.value>>
        free(text) == <<<<"m", "e", "s", "s", "a", "g", "e", " ", "c", "o", "n",
                          "t", "a", "i", "n", "s", " ">> \o text>>
    IN  IF IsSearchTerm(term) /\ Truthy(term.field) THEN fielded
        ELSE free(term.value)

\* The where clauses one term adds in _spl_to_leql (none, or one)
LeqlWhereClause(term) ==
    LET fielded(op) == <<term.field.v \o <<" ">> \o op \o <<" ", "'">>
                         \o term.value \o <<"'">>>>
        free(text) == <<<<"m", "e", "s", "s", "a", "g", "e", " ", "c", "o", "n",
                          "t", "a", "i", "n", "s", " ", "'">> \o text \o <<"'">>>>
    IN  IF IsSearchTerm(term)
        THEN IF Truthy(term.field)
             THEN IF term.operator = <<"=">> THEN fielded(<<"=">>)
                  ELSE IF term.operator = <<"!", "=">> THEN fielded(<<"!", "=">>)
                  ELSE IF term.operator = <<">">> THEN fielded(<<">">>)
                  ELSE IF term.operator = <<"<">> THEN fielded(<<"<">>)
                  ELSE IF term.operator = <<">", "=">> THEN fielded(<<">", "=">>)
                  ELSE IF term.operator = <<"<", "=">> THEN fielded(<<"<", "=">>)
                  ELSE <<>>
             ELSE free(term.value)
        ELSE free(term.value)

RECURSIVE LeqlWhereClauses(_)
LeqlWhereClauses(search_terms) ==
    IF search_terms = <<>> THEN <<>>
    ELSE LeqlWhereClause(Head(search_terms)) \o LeqlWhereClauses(Tail(search_terms))

\* LeqlWhereParts with one where (...) appended per clause
LeqlWherePartsPerTerm(search_terms) ==
    LET where_clauses == LeqlWhereClauses(search_terms)
    IN  [i \in DOMAIN where_clauses |->
           <<"w", "h", "e", "r", "e", " ", "(">> \o where_clauses[i] \o <<")">>]

\* "Handle search terms" of _spl_to_leql: the parts it appends
LeqlWhereParts(search_terms) ==
    LET where_clauses == LeqlWhereClauses(search_terms)
    IN  IF where_clauses # <<>>
        THEN <<<<"w", "h", "e", "r", "e", " ", "(">>
               \o Join(where_clauses, <<" ", "A", "N", "D", " ">>) \o <<")">>>>
        ELSE <<>>

\* The branch "elif cmd['name'] == 'stats' and <agg> in cmd['args']"
LeqlAggregate(cmd, agg, prefix) ==
    LET field_index == ListIndex(cmd.args, agg) + 1
    IN  IF field_index <= Len(cmd.args)
        THEN <<prefix \o cmd.args[field_index] \o <<")">>>>
        ELSE <<>>

\* The body of "for cmd in parsed.commands" of _spl_to_leql: the parts one
\* command appends
LeqlCommandParts(cmd) ==
    LET stats == <<"s", "t", "a", "t", "s">>
        by == <<"b", "y">>
        agg(w) == cmd.name = stats /\ InList(cmd.args, w)
    IN  IF cmd.name = stats
        THEN IF InList(cmd.args, <<"c", "o", "u", "n", "t">>)
             THEN <<<<"c", "a", "l", "c", "u", "l", "a", "t", "e", "(", "c", "o",
                      "u", "n", "t", ")">>>>
                  \o (IF InList(cmd.args, by) /\ ListIndex(cmd.args, by) < Len(cmd.args)
                      THEN <<<<"g", "r", "o", "u", "p", "b", "y", "(">>
                             \o Join(Drop(cmd.args, ListIndex(cmd.args, by) + 1),
                                     <<",", " ">>)
                             \o <<")">>>>
                      ELSE <<>>)
             ELSE <<>>
        ELSE IF cmd.name = <<"t", "a", "b", "l", "e">>
        THEN IF cmd.args # <<>>
             THEN <<<<"s", "e", "l", "e", "c", "t", " ", "(">>
                    \o Join(cmd.args, <<",", " ">>) \o <<")">>>>
             ELSE <<>>
        ELSE IF cmd.name = <<"s", "o", "r", "t">>
        THEN IF Len(cmd.args) >= 2
             THEN LET direction == Lower(cmd.args[2])
                      sort_direction == IF direction = <<"d", "e", "s", "c">>
                                        THEN <<"d", "e", "s", "c">>
                                        ELSE <<"a", "s", "c">>
                  IN  <<<<"s", "o", "r", "t", "(">> \o sort_direction \o <<")">>>>
             ELSE <<>>
        ELSE IF cmd.name = <<"t", "i", "m", "e", "s", "l", "i", "c", "e">>
        THEN IF Len(cmd.args) >= 1
             THEN <<<<"t", "i", "m", "e", "s", "l", "i", "c", "e", "(">>
                    \o cmd.args[1] \o <<")">>>>
             ELSE <<>>
        ELSE IF agg(<<"a", "v", "g">>)
        THEN LeqlAggregate(cmd, <<"a", "v", "g">>,
                 <<"c", "a", "l", "c", "u", "l", "a", "t", "e", "(", "a", "v", "e",
                   "r", "a", "g", "e", ":">>)
        ELSE IF agg(<<"s", "u", "m">>)
        THEN LeqlAggregate(cmd, <<"s", "u", "m">>,
                 <<"c", "a", "l", "c", "u", "l", "a", "t", "e", "(", "s", "u", "m", ":">>)
        ELSE IF agg(<<"m", "i", "n">>)
        THEN LeqlAggregate(cmd, <<"m", "i", "n">>,
                 <<"c", "a", "l", "c", "u", "l", "a", "t", "e", "(", "m", "i", "n", ":">>)
        ELSE IF agg(<<"m", "a", "x">>)
        THEN LeqlAggregate(cmd, <<"m", "a", "x">>,
                 <<"c", "a", "l", "c", "u", "l", "a", "t", "e", "(", "m", "a", "x", ":">>)
        ELSE <<>>

RECURSIVE LeqlCommandLoop(_)
LeqlCommandLoop(commands) ==
    IF commands = <<>> THEN <<>>
    ELSE LeqlCommandParts(Head(commands)) \o LeqlCommandLoop(Tail(commands))

\* def _spl_to_leql(self, query) -> str, from "leql_parts = []" on: the text
\* rendered from parsed = self._parse_spl(query)
_spl_to_leql(parsed) ==
    LET leql_parts ==
            LeqlTimeParts(parsed.time_range)
            \o LeqlWhereParts(parsed.search_terms)
            \o (IF parsed.commands.some THEN LeqlCommandLoop(parsed.commands.v)
                ELSE <<>>)
    IN  Join(leql_parts, <<" ">>)

(***************************************************************************)
(* _spl_to_wql                                                             *)
(***************************************************************************)
\* "Handle time range" of _spl_to_wql: the parts it appends
WqlTimeParts(time_range) ==
    IF ~time_range.some THEN <<>>
    ELSE LET tr == time_range.v
             time_clause ==
                 (IF Truthy(tr.earliest)
                  THEN <<<<"t", "i", "m", "e", ">", "=">> \o tr.earliest.v>>
                  ELSE <<>>)
                 \o (IF Truthy(tr.latest)
                     THEN <<<<"t", "i", "m", "e", "<", "=">> \o tr.latest.v>>
                     ELSE <<>>)
         IN  IF time_clause # <<>>
             THEN <<<<"t", "i", "m", "e", ":", " ">> \o Join(time_clause, <<";">>)>>
             ELSE <<>>

\* WqlSearchClause with every fielded term rendered with "=", whatever its
\* operator
WqlSearchClauseAllEquals(term) ==
    IF IsSearchTerm(term) /\ Truthy(term.field)
    THEN <<term.field.v \o <<"=">> \o term.value>>
    ELSE <<<<"m", "e", "s", "s", "a", "g", "e", "~">> \o term.value>>

\* The search clauses one term adds in _spl_to_wql (none, or one)
WqlSearchClause(term) ==
    LET fielded(op) == <<term.field.v \o op \o term.value>>
        free(text) == <<<<"m", "e", "s", "s", "a", "g", "e", "~">> \o text>>
    IN  IF IsSearchTerm(term)
        THEN IF Truthy(term.field)
             THEN IF term.operator = <<"=">> THEN fielded(<<"=">>)
                  ELSE IF term.operator = <<"!", "=">> THEN fielded(<<"!", "=">>)
                  ELSE IF term.operator = <<">">> THEN fielded(<<">">>)
                  ELSE IF term.operator = <<"<">> THEN fielded(<<"<">>)
                  ELSE IF term.operator = <<">", "=">> THEN fielded(<<">", "=">>)
                  ELSE IF term.operator = <<"<", "=">> THEN fielded(<<"<", "=">>)
                  ELSE <<>>
             ELSE free(term.value)
        ELSE free(term.value)

RECURSIVE WqlSearchClauses(_)
WqlSearchClauses(search_terms) ==
    IF search_terms = <<>> THEN <<>>
    ELSE WqlSearchClause(Head(search_terms)) \o WqlSearchClauses(Tail(search_terms))

\* "Handle grouping operators": every part parenthesised when there are
\* more than one
WqlGroupParts(wql_parts) ==
    IF Len(wql_parts) > 1
    THEN [i \in DOMAIN wql_parts |-> <<"(">> \o wql_parts[i] \o <<")">>]
    ELSE wql_parts

\* _spl_to_wql without "if parsed.commands: wql_parts.append(...)"
_spl_to_wql_without_note(parsed) ==
    LET search_clauses == WqlSearchClauses(parsed.search_terms)
    IN  Join(WqlGroupParts(
               WqlTimeParts(parsed.time_range)
               \o (IF search_clauses # <<>>
                   THEN <<Join(search_clauses, <<";">>)>>
                   ELSE <<>>)),
             <<" ">>)

\* def _spl_to_wql(self, query) -> str, from "wql_parts = []" on: the text
\* rendered from parsed = self._parse_spl(query)
_spl_to_wql(parsed) ==
    LET search_clauses == WqlSearchClauses(parsed.search_terms)
        wql_parts ==
            WqlGroupParts(
                WqlTimeParts(parsed.time_range)
                \o (IF search_clauses # <<>>
                    THEN <<Join(search_clauses, <<";">>)>>
                    ELSE <<>>))
            \o (IF parsed.commands.some
                THEN <<<<"(", "N", "o", "t", "e", ":", " ", "W", "Q", "L", " ", "d",
                         "o", "e", "s", " ", "n", "o", "t", " ", "s", "u", "p", "p",
                         "o", "r", "t", " ", "S", "P", "L", " ", "c", "o", "m", "m",
                         "a", "n", "d", "s", ")">>>>
                ELSE <<>>)
    IN  Join(wql_parts, <<" ">>)

(***************************************************************************)
(* _leql_to_spl, _leql_to_wql                                              *)
(***************************************************************************)
\* The strings "for term in parsed.get('search_terms', [])" collects: one
\* per term whose operator.lower() is 'icontains', formatted by fmt
RECURSIVE LeqlTermLoop(_, _, _)
LeqlTermLoop(search_terms, pre, post) ==
    IF search_terms = <<>> THEN <<>>
    ELSE LET term == Head(search_terms)
         IN  (IF Lower(term.operator) = <<"i", "c", "o", "n", "t", "a", "i", "n", "s">>
              THEN <<term.field.v \o pre \o term.value \o post>>
              ELSE <<>>)
             \o LeqlTermLoop(Tail(search_terms), pre, post)

\* The parts "for cmd in parsed['commands']" appends: fmt(cmd) per groupby
RECURSIVE LeqlGroupbyLoop(_, _)
LeqlGroupbyLoop(commands, toSpl) ==
    IF commands = <<>> THEN <<>>
    ELSE LET cmd == Head(commands)
         IN  (IF cmd.name = <<"g", "r", "o", "u", "p", "b", "y">>
              THEN IF toSpl
                   THEN <<<<"|", " ", "s", "t", "a", "t", "s", " ", "c", "o", "u",
                            "n", "t", " ", "b", "y", " ">>
                          \o Join(cmd.args, <<",", " ">>)>>
                   ELSE <<<<"(", "N", "o", "t", "e", ":", " ", "W", "Q", "L", " ",
                            "d", "o", "e", "s", " ", "n", "o", "t", " ", "s", "u",
                            "p", "p", "o", "r", "t", " ", "g", "r", "o", "u", "p",
                            "i", "n", "g", " ", "o", "p", "e", "r", "a", "t", "i",
                            "o", "n", "s", ")">>>>
              ELSE <<>>)
             \o LeqlGroupbyLoop(Tail(commands), toSpl)

\* _leql_to_spl without "if parsed.get('commands'): ..."
_leql_to_spl_terms_only(parsed) ==
    Join(LeqlTermLoop(parsed.search_terms, <<"*">>, <<"*">>), <<" ">>)

\* def _leql_to_spl(self, query) -> str, from "spl_parts = []" on: the text
\* rendered from parsed = self._parse_leql(query)
_leql_to_spl(parsed) ==
    LET search_terms == LeqlTermLoop(parsed.search_terms, <<"*">>, <<"*">>)
        spl_parts ==
            (IF search_terms # <<>> THEN <<Join(search_terms, <<" ">>)>> ELSE <<>>)
            \o (IF parsed.commands.some
                THEN LeqlGroupbyLoop(parsed.commands.v, TRUE)
                ELSE <<>>)
    IN  Join(spl_parts, <<" ">>)

\* def _leql_to_wql(self, query) -> str, from "wql_parts = []" on: the text
\* rendered from parsed = self._parse_leql(query)
_leql_to_wql(parsed) ==
    LET search_clauses == LeqlTermLoop(parsed.search_terms, <<"~">>, <<>>)
        wql_parts ==
            (IF search_clauses # <<>> THEN <<Join(search_clauses, <<";">>)>> ELSE <<>>)
            \o (IF parsed.commands.some
                THEN LeqlGroupbyLoop(parsed.commands.v, FALSE)
                ELSE <<>>)
    IN  Join(wql_parts, <<" ">>)

(***************************************************************************)
(* _wql_to_spl, _wql_to_leql                                               *)
(***************************************************************************)
\* def _wql_to_spl(self, query): the body is "pass", so the call returns None
_wql_to_spl(q) == Return(NoneVal)

\* def _wql_to_leql(self, query): the body is "pass", so the call returns None
_wql_to_leql(q) == Return(NoneVal)

(***************************************************************************)
(* The dispatcher                                                          *)
(***************************************************************************)
VARIABLES
    converters,   \* self.converters: (source, target) -> converter
    op,           \* the method called last, "idle" between calls
    query,        \* its query argument
    source,       \* its source_lang argument
    target,       \* its target_lang argument
    outcome,      \* what the call returned or raised
    calls         \* the converter and parser functions the call invoked

vars == <<converters, op, query, source, target, outcome, calls>>

\* self.converters without the entry for (WQL, SPL)
InitConvertersWithoutWqlToSpl ==
    (<<SPL, LEQL>> :> "_spl_to_leql") @@ (<<SPL, WQL>> :> "_spl_to_wql")
    @@ (<<LEQL, SPL>> :> "_leql_to_spl") @@ (<<LEQL, WQL>> :> "_leql_to_wql")
    @@ (<<WQL, LEQL>> :> "_wql_to_leql")

\* self.converters, as built by __init__: the registered (source, target) pairs
InitConverters ==
    (<<SPL, LEQL>> :> "_spl_to_leql") @@ (<<SPL, WQL>> :> "_spl_to_wql")
    @@ (<<LEQL, SPL>> :> "_leql_to_spl") @@ (<<LEQL, WQL>> :> "_leql_to_wql")
    @@ (<<WQL, SPL>> :> "_wql_to_spl") @@ (<<WQL, LEQL>> :> "_wql_to_leql")

\* self.supported_languages, as built by __init__
supported_languages ==
    (SPL :> "_parse_spl") @@ (LEQL :> "_parse_leql") @@ (WQL :> "_parse_wql")

\* The parser a converter calls on its argument (none for the WQL stubs)
ConverterParser(converter) ==
    CASE converter \in {"_spl_to_leql", "_spl_to_wql"} -> <<"_parse_spl">>
      [] converter \in {"_leql_to_spl", "_leql_to_wql"} -> <<"_parse_leql">>
      [] OTHER -> <<>>

\* "parsed = self._parse_xxx(query)", the first statement of a converter: the
\* SPL converters call _parse_spl, the LEQL converters _parse_leql, and no
\* converter calls _parse_wql
CallParser(parser, q) ==
    CASE parser = "_parse_spl" -> _parse_spl(q)
      [] parser = "_parse_leql" -> _parse_leql(q)

\* The rest of the converter: the text it joins and returns, unless the parser
\* raised
Rendered(converter, p) ==
    IF p.raised THEN p
    ELSE Return(Some(
           CASE converter = "_spl_to_leql" -> _spl_to_leql(p.value)
             [] converter = "_spl_to_wql" -> _spl_to_wql(p.value)
             [] converter = "_leql_to_spl" -> _leql_to_spl(p.value)
             [] converter = "_leql_to_wql" -> _leql_to_wql(p.value)))

\* converter(query) for a registered converter
CallConverter(converter, q) ==
    CASE converter = "_wql_to_spl" -> _wql_to_spl(q)
      [] converter = "_wql_to_leql" -> _wql_to_leql(q)
      [] OTHER -> Rendered(converter, CallParser(ConverterParser(converter)[1], q))

\* The ValueError convert_query raises for a pair without a converter
NotSupported(source_lang, target_lang) ==
    Raise("ValueError",
          <<"C", "o", "n", "v", "e", "r", "s", "i", "o", "n", " ", "f", "r", "o",
            "m", " ">> \o LangValue(source_lang) \o <<" ", "t", "o", " ">>
          \o LangValue(target_lang)
          \o <<" ", "i", "s", " ", "n", "o", "t", " ", "s", "u", "p", "p", "o", "r",
               "t", "e", "d">>)

\* convert_query without "if source_lang == target_lang: return query"
convert_query_without_identity(q, source_lang, target_lang) ==
    IF <<source_lang, target_lang>> \notin DOMAIN converters
    THEN NotSupported(source_lang, target_lang)
    ELSE CallConverter(converters[<<source_lang, target_lang>>], q)

\* def convert_query(self, query, source_lang, target_lang) -> str
convert_query(q, source_lang, target_lang) ==
    IF source_lang = target_lang THEN Return(Some(q))
    ELSE IF <<source_lang, target_lang>> \notin DOMAIN converters
    THEN NotSupported(source_lang, target_lang)
    ELSE CallConverter(converters[<<source_lang, target_lang>>], q)

\* The converter and parser functions a convert_query call invokes, in order
ConvertQueryCalls(q, source_lang, target_lang) ==
    IF source_lang = target_lang THEN <<>>
    ELSE IF <<source_lang, target_lang>> \notin DOMAIN converters THEN <<>>
    ELSE <<converters[<<source_lang, target_lang>>]>>
         \o ConverterParser(converters[<<source_lang, target_lang>>])

\* Targets without "if target_lang != source_lang"
TargetsWithSource(source_lang) == QueryLanguage

\* The targets "for target_lang in QueryLanguage: if target_lang != source_lang"
\* visits, in order
Targets(source_lang) == Without(QueryLanguage, {source_lang})

\* TargetEntry with str(e) stored for f"Error: {str(e)}"
TargetEntryBareMessage(converted) ==
    IF converted.raised THEN Some(converted.msg) ELSE converted.value

\* The value convert_to_all_languages stores for one target
TargetEntry(converted) ==
    IF converted.raised
    THEN Some(<<"E", "r", "r", "o", "r", ":", " ">> \o converted.msg)
    ELSE converted.value

\* The target whose value is key
TargetOf(key) == CHOOSE t \in Range(QueryLanguage) : LangValue(t) = key

LeqlPlaceholder ==
    <<"L", "E", "Q", "L", " ", "q", "u", "e", "r", "y", " ", "p", "l",
      "a", "c", "e", "h", "o", "l", "d", "e", "r">>

WqlPlaceholder ==
    <<"W", "Q", "L", " ", "q", "u", "e", "r", "y", " ", "p", "l", "a",
      "c", "e", "h", "o", "l", "d", "e", "r">>

\* convert_to_all_languages as test_convert_to_all_languages expects it: a
\* fixed text per target, whatever the query
convert_to_all_languages_placeholders(q, source_lang) ==
    Return([key \in {LangValue(t) : t \in Range(Targets(source_lang))} |->
              IF key = LangValue(LEQL) THEN Some(LeqlPlaceholder)
              ELSE IF key = LangValue(WQL) THEN Some(WqlPlaceholder)
              ELSE Some(<<>>)])

\* def convert_to_all_languages(self, query, source_lang) -> Dict[str, str]
convert_to_all_languages(q, source_lang) ==
    Return([key \in {LangValue(t) : t \in Range(Targets(source_lang))} |->
              TargetEntry(convert_query(q, source_lang, TargetOf(key)))])

\* The functions a convert_to_all_languages call invokes, in order
RECURSIVE ConvertToAllCalls(_, _, _)
ConvertToAllCalls(q, source_lang, targets) ==
    IF targets = <<>> THEN <<>>
    ELSE ConvertQueryCalls(q, source_lang, Head(targets))
         \o ConvertToAllCalls(q, source_lang, Tail(targets))

(***************************************************************************)
(* The web endpoint POST /query-converter (main.py)                        *)
(***************************************************************************)
\* QueryLanguage(value): the member with that value; ValueError if there is
\* none
QueryLanguageOf(value) ==
    IF \E l \in Range(QueryLanguage) : LangValue(l) = value
    THEN Return(TargetOf(value))
    ELSE Raise("ValueError",
               <<"'">> \o value
               \o <<"'", " ", "i", "s", " ", "n", "o", "t", " ", "a", " ", "v",
                    "a", "l", "i", "d", " ", "Q", "u", "e", "r", "y", "L", "a",
                    "n", "g", "u", "a", "g", "e">>)

\* The template context of a successful conversion
ResultsContext(results, source_language, q) ==
    [title |-> "SIEM Query Converter", results |-> results,
     source_language |-> source_language, query |-> q]

\* The template context of the "except Exception as e" branch
ErrorContext(error, source_language, q) ==
    [title |-> "SIEM Query Converter", error |-> error,
     source_language |-> source_language, query |-> q]

\* The endpoint with QueryLanguage(source_language), the tag not lower-cased
post_query_converter_as_given(source_language, q) ==
    LET source_lang == QueryLanguageOf(source_language)
    IN  IF source_lang.raised
        THEN Return(ErrorContext(source_lang.msg, source_language, q))
        ELSE Return(ResultsContext(
                      convert_to_all_languages(q, source_lang.value).value,
                      source_language, q))

\* async def convert_query(request, source_language, query) of main.py:
\* the context the query_converter.html template is rendered with
post_query_converter(source_language, q) ==
    LET source_lang == QueryLanguageOf(Lower(source_language))
    IN  IF source_lang.raised
        THEN Return(ErrorContext(source_lang.msg, source_language, q))
        ELSE Return(ResultsContext(
                      convert_to_all_languages(q, source_lang.value).value,
                      source_language, q))

\* The QueryConverter functions the endpoint invokes, in order
PostQueryConverterCalls(source_language, q) ==
    LET source_lang == QueryLanguageOf(Lower(source_language))
    IN  IF source_lang.raised THEN <<>>
        ELSE <<"convert_to_all_languages">>
             \o ConvertToAllCalls(q, source_lang.value,
                                  Targets(source_lang.value))

(***************************************************************************)
(* The queries the calls are made with                                     *)
(***************************************************************************)
MaxLen == 3
MaxWordLen == 2

\* The strings of at most n characters drawn from chars
StringsUpTo(chars, n) == UNION {[1..k -> chars] : k \in 0..n}

\* The non-empty ones
Words(chars, n) == StringsUpTo(chars, n) \ {<<>>}

\* Every string of at most MaxLen of the characters the parsers look for
Alphabet == {"a", " ", "=", "!", ">", ";", "(", ")", "*", "|"}

AnyStrings == StringsUpTo(Alphabet, MaxLen)

\* Field names: words of the class [a-zA-Z0-9_\.]
Fields ==
    Words({"a", "1"}, MaxWordLen)
    \cup {<<"c", "p", "u">>, <<"s", "t", "a", "t", "u", "s">>, <<"a", "_", ".", "1">>}

\* Unquoted value tokens without operator characters
Values ==
    Words({"9", "-"}, MaxWordLen)
    \cup {<<"b">>, <<"9", "0">>, <<"4", "0", "4">>}

\* The relational operators of the three languages, and WQL's like operator
RelOps == {<<"=">>, <<"!", "=">>, <<">">>, <<"<">>, <<">", "=">>, <<"<", "=">>}

AllOps == RelOps \cup {<<"~">>}

\* Single fielded terms f<op>v
FieldedTerms == {f \o o \o v : f \in Fields, o \in AllOps, v \in Values}

\* Bare words: no whitespace, pipe, bracket, '*' or operator character
BareWords ==
    Words({"e", "1", "_", "-", ".", "'", ":"}, MaxWordLen)
    \cup {<<"e", "r", "r", "o", "r">>}

\* SPL queries with a time range: earliest=E and latest=L before, after or
\* around the other terms
Earliests == {<<"-", "1", "d">>, <<"1", "d">>, <<"-">>, <<"-", "-", "1", "h">>,
              <<"n", "o", "w">>}

Latests == {<<"n", "o", "w">>, <<"-", "1", "h">>}

TimedRests ==
    {<<>>, <<"e", "r", "r", "o", "r">>,
     <<"s", "t", "a", "t", "u", "s", "=", "4", "0", "4">>,
     <<"e", "r", "r", "o", "r", " ", "s", "t", "a", "t", "u", "s", "=", "4", "0", "4">>,
     <<"c", "p", "u", ">", "=", "9", "0">>}

EarliestToken(e) == <<"e", "a", "r", "l", "i", "e", "s", "t", "=">> \o e

LatestToken(l) == <<"l", "a", "t", "e", "s", "t", "=">> \o l

\* The layouts of a timed query: the tokens joined by single spaces
TimedLayouts(e, l, rest) ==
    LET E == EarliestToken(e)
        L == LatestToken(l)
    IN  {Join(Without(layout, {<<>>}), <<" ">>) :
           layout \in {<<E, L, rest>>, <<L, E, rest>>, <<rest, E, L>>,
                       <<E, rest, L>>}}

TimedQueries ==
    UNION {TimedLayouts(e, l, rest) :
             e \in Earliests, l \in Latests, rest \in TimedRests}

\* SPL pipelines: a search part followed by at most MaxSegments segments,
\* each introduced by a pipe; a segment is a command or blank
MaxSegments == 2

SearchParts == {<<>>, <<"e", "r", "r", "o", "r">>}

Segments ==
    {<<>>,
     <<"s", "t", "a", "t", "s", " ", "c", "o", "u", "n", "t", " ", "b", "y",
       " ", "s", "t", "a", "t", "u", "s">>,
     <<"s", "t", "a", "t", "s", " ", "c", "o", "u", "n", "t", " ", "b", "y",
       " ", "s", "t", "a", "t", "u", "s", " ", "h", "o", "s", "t">>,
     <<"t", "a", "b", "l", "e", " ", "s", "t", "a", "t", "u", "s", " ", "c",
       "o", "u", "n", "t">>,
     <<"s", "t", "a", "t", "s", " ", "a", "v", "g", " ", "c", "p", "u">>,
     <<"s", "t", "a", "t", "s", " ", "s", "u", "m", " ", "c", "p", "u">>,
     <<"s", "t", "a", "t", "s", " ", "m", "i", "n", " ", "c", "p", "u">>,
     <<"s", "t", "a", "t", "s", " ", "m", "a", "x", " ", "c", "p", "u">>,
     <<"s", "o", "r", "t", " ", "c", "p", "u", " ", "d", "e", "s", "c">>,
     <<"s", "o", "r", "t", " ", "c", "p", "u", " ", "D", "E", "S", "C">>,
     <<"s", "o", "r", "t", " ", "c", "p", "u", " ", "a", "s", "c">>,
     <<"t", "i", "m", "e", "s", "l", "i", "c", "e", " ", "1", "h">>,
     <<"h", "e", "a", "d", " ", "5">>,
     <<"b", "y", " ", "s", "t", "a", "t", "u", "s">>,
     <<"l", "o", "o", "k", "u", "p", " ", "t", " ", "f">>}

PipelineTails(n) ==
    LET tails[k \in 0..n] ==
            IF k = 0 THEN {<<>>}
            ELSE {<<>>} \cup {<<" ", "|", " ">> \o s \o t :
                                s \in Segments, t \in tails[k - 1]}
    IN  tails[n]

PipelineQueries ==
    {p \o t : p \in SearchParts, t \in PipelineTails(MaxSegments)}

\* SPL search parts of at most MaxTerms terms of different kinds (free
\* text, fielded, wildcard) separated by single spaces
MaxTerms == 2

MixedTerms ==
    {<<"e", "r", "r", "o", "r">>, <<"x">>,
     <<"s", "t", "a", "t", "u", "s", "=", "4", "0", "4">>,
     <<"c", "p", "u", ">", "9", "0">>, <<"a", "*">>}

MixedQueries ==
    {Join(terms, <<" ">>) :
       terms \in UNION {[1..k -> MixedTerms] : k \in 1..MaxTerms}}

\* SPL search parts whose terms are separated by the boolean words
BooleanTerms ==
    {<<"s", "t", "a", "t", "u", "s", "=", "4", "0", "4">>,
     <<"s", "t", "a", "t", "u", "s", "=", "5", "0", "0">>,
     <<"e", "r", "r", "o", "r">>}

BooleanWords == {<<" ", "A", "N", "D", " ">>, <<" ", "O", "R", " ">>}

\* The texts t1 w1 t2 w2 .. tn of n terms
BooleanTexts(n) ==
    LET texts[k \in 1..n] ==
            IF k = 1 THEN BooleanTerms
            ELSE {s \o w \o t : s \in texts[k - 1], w \in BooleanWords,
                                t \in BooleanTerms}
    IN  texts[n]

BooleanQueries == UNION {BooleanTexts(n) : n \in 1..MaxTerms}

\* SPL queries with only one of earliest= and latest=
HalfTimedQueries ==
    {Join(Without(<<token, rest>>, {<<>>}), <<" ">>) :
       token \in {EarliestToken(e) : e \in Earliests}
                 \cup {LatestToken(l) : l \in Latests},
       rest \in TimedRests}

\* LEQL queries: at most one where clause, with the ICONTAINS operator or
\* without it, at most one groupby clause and at most one other clause, the
\* where clause first or last
LeqlTermFields == {<<"s", "t", "a", "t", "u", "s">>, <<"a">>}

LeqlTermValues == {<<"4", "0", "4">>, <<"b">>}

LeqlIcontains(F, V) ==
    <<"w", "h", "e", "r", "e", "(">> \o F
    \o <<" ", "I", "C", "O", "N", "T", "A", "I", "N", "S", " ">> \o V \o <<")">>

LeqlOtherWheres ==
    {<<"w", "h", "e", "r", "e", "(", "s", "t", "a", "t", "u", "s", " ", "=",
       " ", "4", "0", "4", ")">>,
     <<"w", "h", "e", "r", "e", "(", "s", "t", "a", "t", "u", "s", "=", "4",
       "0", "4", ")">>}

LeqlGroupFields == {<<"s", "t", "a", "t", "u", "s">>, <<"a", ",", " ", "b">>}

LeqlGroupby(G) == <<"g", "r", "o", "u", "p", "b", "y", "(">> \o G \o <<")">>

LeqlOthers ==
    {<<"c", "a", "l", "c", "u", "l", "a", "t", "e", "(", "c", "o", "u", "n",
       "t", ")">>,
     <<"s", "o", "r", "t", "(", "d", "e", "s", "c", ")">>}

\* The LEQL text of the clauses w, g and o, <<>> for a missing one, in the
\* order w g o or g o w
LeqlTexts(w, g, o) ==
    {Join(Without(<<w, g, o>>, {<<>>}), <<" ">>),
     Join(Without(<<g, o, w>>, {<<>>}), <<" ">>)}

LeqlQueries ==
    UNION {LeqlTexts(w, g, o) :
             w \in {<<>>} \cup LeqlOtherWheres
                   \cup {LeqlIcontains(F, V) : F \in LeqlTermFields,
                                               V \in LeqlTermValues},
             g \in {<<>>} \cup {LeqlGroupby(G) : G \in LeqlGroupFields},
             o \in {<<>>} \cup LeqlOthers}

\* WQL queries with a time: clause, with and without bounds, alone or before
\* another clause
WqlTimeTexts ==
    {<<>>, <<" ">>, <<"t", "i", "m", "e", ">", "=", "1", "d">>,
     <<" ", "t", "i", "m", "e", ">", "=", "1", "d">>,
     <<"t", "i", "m", "e", ">", "=">>,
     <<"t", "i", "m", "e", "<", "=", "n", "o", "w">>,
     <<"t", "i", "m", "e", "<", "=", " ">>,
     <<"t", "i", "m", "e", ">", "1", "d">>,
     <<"t", "i", "m", "e", "<", "n", "o", "w">>, <<"x">>}

WqlTimeTails ==
    {<<>>, <<";", "t", "i", "m", "e", "<", "=", "n", "o", "w">>,
     <<";", "a", "=", "b">>}

WqlTimedQueries ==
    {<<"t", "i", "m", "e", ":">> \o t \o tail :
       t \in WqlTimeTexts, tail \in WqlTimeTails}

\* WQL queries with a parenthesized clause (inner), alone, nested or after
\* another clause
WqlInnerTerms ==
    {<<"s", "t", "a", "t", "u", "s", "=", "4", "0", "4">>, <<"a", "~", "b">>,
     <<"c", "p", "u", ">", "9", "0">>, <<"a", "!", "=", "b">>,
     <<"e", "r", "r", "o", "r">>, <<>>}

WqlGroup(inner) == <<"(">> \o inner \o <<")">>

WqlGroupedQueries ==
    UNION {{WqlGroup(inner), WqlGroup(WqlGroup(inner)),
            <<"a", "=", "b", ";">> \o WqlGroup(inner)} : inner \in WqlInnerTerms}

Queries ==
    AnyStrings \cup FieldedTerms \cup BareWords \cup TimedQueries
    \cup PipelineQueries \cup MixedQueries \cup BooleanQueries
    \cup HalfTimedQueries \cup LeqlQueries \cup WqlTimedQueries
    \cup WqlGroupedQueries

\* The form fields posted to /query-converter, both required (Form(...)) and
\* so non-empty: a source_language tag that names a language in some letter
\* case, or does not, and a query
SourceLanguageTags ==
    {<<"s", "p", "l">>, <<"S", "P", "L">>, <<"S", "p", "l">>,
     <<"l", "e", "q", "l">>, <<"L", "E", "Q", "L">>, <<"L", "e", "Q", "l">>,
     <<"w", "q", "l">>, <<"W", "Q", "L">>, <<"w", "Q", "L">>,
     <<"s", "q", "l">>, <<"s", "p", "l", "u", "n", "k">>,
     <<" ", "s", "p", "l">>, <<"s", "p">>}

FormQueries == BareWords \cup MixedQueries

Languages == Range(QueryLanguage)

(***************************************************************************)
(* The state machine: a QueryConverter and the calls made on it            *)
(***************************************************************************)
NoLang == "-"

\* QueryConverter(): __init__ builds the tables; no call has been made
Init ==
    /\ converters = InitConverters
    /\ op = "idle"
    /\ query = <<>>
    /\ source = NoLang
    /\ target = NoLang
    /\ outcome = Return(NoneVal)
    /\ calls = <<>>

\* converter.convert_query(q, s, t) for a query q of qs
ConvertQueryOf(qs) ==
    /\ op = "idle"
    /\ \E q \in qs, s \in Languages, t \in Languages :
         /\ op' = "convert_query"
         /\ query' = q
         /\ source' = s
         /\ target' = t
         /\ outcome' = convert_query(q, s, t)
         /\ calls' = ConvertQueryCalls(q, s, t)
    /\ UNCHANGED converters

\* converter.convert_to_all_languages(q, s) for a query q of qs
ConvertToAllLanguagesOf(qs) ==
    /\ op = "idle"
    /\ \E q \in qs, s \in Languages :
         /\ op' = "convert_to_all_languages"
         /\ query' = q
         /\ source' = s
         /\ target' = NoLang
         /\ outcome' = convert_to_all_languages(q, s)
         /\ calls' = ConvertToAllCalls(q, s, Targets(s))
    /\ UNCHANGED converters

ConvertQuery == ConvertQueryOf(Queries)

ConvertToAllLanguages == ConvertToAllLanguagesOf(Queries)

\* converter._parse_spl(q)
ParseSpl ==
    /\ op = "idle"
    /\ \E q \in Queries :
         /\ op' = "_parse_spl"
         /\ query' = q
         /\ outcome' = _parse_spl(q)
    /\ source' = NoLang
    /\ target' = NoLang
    /\ calls' = <<>>
    /\ UNCHANGED converters

\* converter._parse_leql(q)
ParseLeql ==
    /\ op = "idle"
    /\ \E q \in Queries :
         /\ op' = "_parse_leql"
         /\ query' = q
         /\ outcome' = _parse_leql(q)
    /\ source' = NoLang
    /\ target' = NoLang
    /\ calls' = <<>>
    /\ UNCHANGED converters

\* converter._parse_wql(q)
ParseWql ==
    /\ op = "idle"
    /\ \E q \in Queries :
         /\ op' = "_parse_wql"
         /\ query' = q
         /\ outcome' = _parse_wql(q)
    /\ source' = NoLang
    /\ target' = NoLang
    /\ calls' = <<>>
    /\ UNCHANGED converters

\* POST /query-converter with form fields source_language and query
PostQueryConverter ==
    /\ op = "idle"
    /\ \E source_language \in SourceLanguageTags, q \in FormQueries :
         /\ op' = "POST /query-converter"
         /\ query' = q
         /\ outcome' = post_query_converter(source_language, q)
         /\ calls' = PostQueryConverterCalls(source_language, q)
    /\ source' = NoLang
    /\ target' = NoLang
    /\ UNCHANGED converters

\* The caller takes the result; the converter is ready for the next call
Finish ==
    /\ op # "idle"
    /\ op' = "idle"
    /\ query' = <<>>
    /\ source' = NoLang
    /\ target' = NoLang
    /\ outcome' = Return(NoneVal)
    /\ calls' = <<>>
    /\ UNCHANGED converters

Next ==
    \/ ConvertQuery
    \/ ConvertToAllLanguages
    \/ ParseSpl
    \/ ParseLeql
    \/ ParseWql
    \/ Finish

Spec == Init /\ [][Next]_vars

(***************************************************************************)
(* A converter whose table has lost entries.  __init__ registers all six   *)
(* pairs and no method removes one, so under Spec convert_query never      *)
(* reaches "raise ValueError" and no conversion fails.  self.converters is *)
(* a public dict; here client code deletes up to MaxUnregistered of its    *)
(* entries (del converter.converters[pair]) between calls.                 *)
(***************************************************************************)
MaxUnregistered == 1

Unregister ==
    /\ op = "idle"
    /\ Cardinality(DOMAIN InitConverters \ DOMAIN converters) < MaxUnregistered
    /\ \E pair \in DOMAIN converters :
         converters' = [p \in DOMAIN converters \ {pair} |-> converters[p]]
    /\ UNCHANGED <<op, query, source, target, outcome, calls>>

UnregisteredQueries == BareWords \cup {<<>>, <<"a", "=", "b">>}

ConvertQueryUnregistered == ConvertQueryOf(UnregisteredQueries)

ConvertToAllLanguagesUnregistered == ConvertToAllLanguagesOf(UnregisteredQueries)

NextUnregistered ==
    \/ Unregister
    \/ ConvertQueryUnregistered
    \/ ConvertToAllLanguagesUnregistered
    \/ Finish

SpecUnregistered == Init /\ [][NextUnregistered]_vars

(***************************************************************************)
(* The converter behind the web application: the requests of main.py's     *)
(* POST /query-converter reach the module-level QueryConverter one at a    *)
(* time.                                                                   *)
(***************************************************************************)
NextEndpoint ==
    \/ PostQueryConverter
    \/ Finish

SpecEndpoint == Init /\ [][NextEndpoint]_vars

(***************************************************************************)
(* Round trips: client code converts a structured query of one language to *)
(* another language and converts the result back,                          *)
(* converter.convert_query(converter.convert_query(q, a, b), b, a).        *)
(***************************************************************************)
\* converter(None) for a registered converter: the stubs return None, the
\* others fail in their parser, at query.split('|') of _parse_spl and at
\* 'where(' in query of _parse_leql
CallConverterNone(converter) ==
    CASE converter \in {"_wql_to_spl", "_wql_to_leql"} -> Return(NoneVal)
      [] converter \in {"_spl_to_leql", "_spl_to_wql"} ->
           Raise("AttributeError",
                 <<"'", "N", "o", "n", "e", "T", "y", "p", "e", "'", " ", "o", "b",
                   "j", "e", "c", "t", " ", "h", "a", "s", " ", "n", "o", " ", "a",
                   "t", "t", "r", "i", "b", "u", "t", "e", " ", "'", "s", "p", "l",
                   "i", "t", "'">>)
      [] converter \in {"_leql_to_spl", "_leql_to_wql"} ->
           Raise("TypeError",
                 <<"a", "r", "g", "u", "m", "e", "n", "t", " ", "o", "f", " ", "t",
                   "y", "p", "e", " ", "'", "N", "o", "n", "e", "T", "y", "p", "e",
                   "'", " ", "i", "s", " ", "n", "o", "t", " ", "i", "t", "e", "r",
                   "a", "b", "l", "e">>)

\* convert_query(None, source_lang, target_lang)
convert_query_of_none(source_lang, target_lang) ==
    IF source_lang = target_lang THEN Return(NoneVal)
    ELSE IF <<source_lang, target_lang>> \notin DOMAIN converters
    THEN NotSupported(source_lang, target_lang)
    ELSE CallConverterNone(converters[<<source_lang, target_lang>>])

\* convert_query(first, source_lang, target_lang) for the outcome first of a
\* call: nothing is called if that call raised
convert_query_of_result(first, source_lang, target_lang) ==
    IF first.raised THEN first
    ELSE IF first.value.some
    THEN convert_query(first.value.v, source_lang, target_lang)
    ELSE convert_query_of_none(source_lang, target_lang)

\* convert_query(convert_query(q, a, b), b, a)
round_trip(q, a, b) == convert_query_of_result(convert_query(q, a, b), b, a)

\* The structured queries of a language, each a single fielded term: f<op>v
\* in SPL and, with ~ as well, in WQL; in LEQL the where clause _spl_to_leql
\* writes and the one _parse_leql reads
LeqlStructured ==
    {<<"w", "h", "e", "r", "e", " ", "(">> \o f \o <<" ", "=", " ", "'">> \o v
       \o <<"'", ")">> : f \in Fields, v \in Values}
    \cup {<<"w", "h", "e", "r", "e", "(">> \o f
            \o <<" ", "I", "C", "O", "N", "T", "A", "I", "N", "S", " ">> \o v
            \o <<")">> : f \in Fields, v \in Values}

StructuredIn(lang) ==
    CASE lang = SPL -> {f \o o \o v : f \in Fields, o \in RelOps, v \in Values}
      [] lang = LEQL -> LeqlStructured
      [] lang = WQL -> FieldedTerms

RoundTrip ==
    /\ op = "idle"
    /\ \E a \in Languages, b \in Languages :
         /\ a # b
         /\ \E q \in StructuredIn(a) :
              /\ op' = "round_trip"
              /\ query' = q
              /\ source' = a
              /\ target' = b
              /\ outcome' = round_trip(q, a, b)
              /\ calls' = ConvertQueryCalls(q, a, b) \o ConvertQueryCalls(q, b, a)
    /\ UNCHANGED converters

NextRoundTrip ==
    \/ RoundTrip
    \/ Finish

SpecRoundTrip == Init /\ [][NextRoundTrip]_vars

(***************************************************************************)
(* _parse_wql step by step.  While a call runs, op is WqlRunning and calls *)
(* holds the active calls of _parse_wql, the innermost last: each with its *)
(* argument, the parts its loop has still to visit and the search_terms    *)
(* and time_range it has built so far.                                     *)
(***************************************************************************)
\* The deepest nesting of active calls the model follows; the queries of
\* WqlStepQueries stay below it
MaxDepth == 6

WqlRunning == "_parse_wql running"

\* Queries of parentheses, semicolons and blanks, balanced or not
ParenChars == {"(", ")", ";", " "}

MaxParenLen == 4

ParenStrings ==
    UNION {[1..n -> ParenChars] : n \in 0..MaxParenLen}

NestedQueries ==
    {<<"(", "(", "(", ")", ")", ")">>,
     <<"(", "(", "(", "(", ")", ")", ")", ")">>,
     <<"(", " ", "(", "e", "r", "r", "o", "r", ")", " ", ")">>,
     <<"(", "(", ")", ")", ";", "(", "(", "(", ")", ")">>}

\* time: clauses without a bound, alone and next to a group
UnboundedTimeQueries ==
    {<<"t", "i", "m", "e", ":">>, <<"t", "i", "m", "e", ":", "x">>,
     <<"t", "i", "m", "e", ":", " ", ";", "(", "(", ")", ")">>}

WqlStepQueries ==
    ParenStrings \cup NestedQueries \cup WqlGroupedQueries
    \cup UnboundedTimeQueries

\* "inner_query = part", without the slice [1:-1]
InnerQuerySame(part) == part

\* "inner_query = part[1:-1].strip()"
InnerQuery(part) == Strip(Slice(part, 2, Len(part)))

\* The stripped part fails every test of the if/elif chain before
\* "elif part.startswith('(') and part.endswith(')')" and passes that one
TakesGroupedBranch(part) ==
    /\ ~StartsWith(part, <<"t", "i", "m", "e", ":">>)
    /\ ~Contains(part, <<"=">>)
    /\ ~Contains(part, <<"!", "=">>)
    /\ ~(Contains(part, <<">">>) /\ ~Contains(part, <<">", "=">>))
    /\ ~(Contains(part, <<"<">>) /\ ~Contains(part, <<"<", "=">>))
    /\ ~Contains(part, <<">", "=">>)
    /\ ~Contains(part, <<"<", "=">>)
    /\ ~Contains(part, <<"~">>)
    /\ StartsWith(part, <<"(">>)
    /\ EndsWith(part, <<")">>)

\* The body of "for part in parts" for a part that does not take the grouped
\* branch: the tests before it, in their order, and no change if none holds
WqlPlainPart(st, part0) ==
    LET part == Strip(part0)
        has(p) == Contains(part, p)
        terms(r) == IF r.raised THEN r
                    ELSE Return([st EXCEPT !.search_terms = @ \o r.value])
    IN  IF StartsWith(part, <<"t", "i", "m", "e", ":">>)
        THEN LET r == WqlTimeLoop(Split(Strip(Drop(part, 6)), <<";">>),
                                  st.time_range)
             IN  IF r.raised THEN r
                 ELSE Return([st EXCEPT !.time_range = r.value])
        ELSE IF has(<<"=">>) THEN terms(WqlTerm(part, <<"=">>, <<"=">>))
        ELSE IF has(<<"!", "=">>)
        THEN terms(WqlTerm(part, <<"!", "=">>, <<"!", "=">>))
        ELSE IF has(<<">">>) /\ ~has(<<">", "=">>)
        THEN terms(WqlTerm(part, <<">">>, <<">">>))
        ELSE IF has(<<"<">>) /\ ~has(<<"<", "=">>)
        THEN terms(WqlTerm(part, <<"<">>, <<"<">>))
        ELSE IF has(<<">", "=">>)
        THEN terms(WqlTerm(part, <<">", "=">>, <<">", "=">>))
        ELSE IF has(<<"<", "=">>)
        THEN terms(WqlTerm(part, <<"<", "=">>, <<"<", "=">>))
        ELSE IF has(<<"~">>) THEN terms(WqlTerm(part, <<"~">>, <<"~">>))
        ELSE Return(st)

\* A call _parse_wql(q) that has run up to "for part in parts"
WqlFrame(q) ==
    [query |-> q,
     parts |-> Split(q, <<";">>),
     st |-> [search_terms |-> <<>>, time_range |-> TimeRange(NoneVal, NoneVal)]]

\* The dict a call returns once its loop is over
WqlResult(frame) ==
    [search_terms |-> frame.st.search_terms,
     time_range |-> TimeRangeOrNone(frame.st.time_range)]

\* converter._parse_wql(q) is called
WqlCall ==
    /\ op = "idle"
    /\ \E q \in WqlStepQueries :
         /\ query' = q
         /\ calls' = <<WqlFrame(q)>>
    /\ op' = WqlRunning
    /\ source' = NoLang
    /\ target' = NoLang
    /\ UNCHANGED <<converters, outcome>>

\* One iteration of "for part in parts" of the innermost call, for a part
\* that takes any branch but the grouped one, or none
WqlStep ==
    /\ op = WqlRunning
    /\ LET frame == calls[Len(calls)]
       IN  /\ frame.parts # <<>>
           /\ ~TakesGroupedBranch(Strip(Head(frame.parts)))
           /\ LET r == WqlPlainPart(frame.st, Head(frame.parts))
              IN  IF r.raised
                  THEN /\ op' = "_parse_wql"
                       /\ outcome' = r
                       /\ calls' = <<>>
                  ELSE /\ calls' = [calls EXCEPT ![Len(calls)] =
                                      [frame EXCEPT !.parts = Tail(@),
                                                    !.st = r.value]]
                       /\ UNCHANGED <<op, outcome>>
    /\ UNCHANGED <<converters, query, source, target>>

\* "inner_terms = self._parse_wql(inner_query)": the innermost call reaches
\* a part that takes the grouped branch and calls _parse_wql on its inside
WqlRecurse ==
    /\ op = WqlRunning
    /\ Len(calls) < MaxDepth
    /\ LET frame == calls[Len(calls)]
       IN  /\ frame.parts # <<>>
           /\ TakesGroupedBranch(Strip(Head(frame.parts)))
           /\ calls' = Append(calls,
                              WqlFrame(InnerQuery(Strip(Head(frame.parts)))))
    /\ UNCHANGED <<converters, op, query, source, target, outcome>>

\* The loop of the innermost call is over and it returns: to its caller,
\* which appends the returned terms with is_grouped = True and goes on with
\* its next part, or to the caller of converter._parse_wql
WqlReturn ==
    /\ op = WqlRunning
    /\ LET n == Len(calls)
           frame == calls[n]
       IN  /\ frame.parts = <<>>
           /\ IF n = 1
              THEN /\ op' = "_parse_wql"
                   /\ outcome' = Return(WqlResult(frame))
                   /\ calls' = <<>>
              ELSE /\ calls' =
                        [i \in 1..(n - 1) |->
                           IF i < n - 1 THEN calls[i]
                           ELSE [calls[i] EXCEPT
                                   !.parts = Tail(@),
                                   !.st.search_terms =
                                       @ \o Grouped(WqlResult(frame).search_terms)]]
                   /\ UNCHANGED <<op, outcome>>
    /\ UNCHANGED <<converters, query, source, target>>

\* The caller takes the result of the finished call
WqlTaken ==
    /\ op = "_parse_wql"
    /\ Finish

NextWqlSteps ==
    \/ WqlCall
    \/ WqlStep
    \/ WqlRecurse
    \/ WqlReturn
    \/ WqlTaken

\* A call that has been started keeps running: nothing but the call itself
\* decides its next step
SpecWqlSteps == Init /\ [][NextWqlSteps]_vars /\ WF_vars(NextWqlSteps)

(***************************************************************************)
(* Concurrent calls on one QueryConverter (main.py shares the module-level *)
(* instance query_converter between requests).  In this specification op,  *)
(* query, source, target, outcome and calls are functions of the thread:   *)
(* op[th] is the call thread th is in, calls[th] its local variables, and  *)
(* converters is the one table all threads read.                           *)
(***************************************************************************)
MaxThreads == 2

Threads == 1..MaxThreads

ConcurrentQueries ==
    {<<"s", "t", "a", "t", "u", "s", "=", "4", "0", "4">>,
     LeqlIcontains(<<"a">>, <<"b">>)}

\* The local variables of a thread: where it is, the converter it looked up,
\* and for convert_to_all_languages the targets still to visit and results
Local(pc, converter, targets, results) ==
    [pc |-> pc, converter |-> converter, targets |-> targets,
     results |-> results]

\* self.converters after "self.converters.pop(key)"
TableAfterPop(table, key) == [k \in DOMAIN table \ {key} |-> table[k]]

\* self.converters after "self.converters.get(key)": the table is only read
TableAfterGet(table, key) == table

InitThreads ==
    /\ converters = InitConverters
    /\ op = [th \in Threads |-> "idle"]
    /\ query = [th \in Threads |-> <<>>]
    /\ source = [th \in Threads |-> NoLang]
    /\ target = [th \in Threads |-> NoLang]
    /\ outcome = [th \in Threads |-> Return(NoneVal)]
    /\ calls = [th \in Threads |-> Local("idle", NoLang, <<>>, <<>>)]

\* Thread th calls converter.convert_query(q, s, t)
ThreadConvertQuery(th) ==
    /\ op[th] = "idle"
    /\ \E q \in ConcurrentQueries, s \in Languages, t \in Languages :
         /\ query' = [query EXCEPT ![th] = q]
         /\ source' = [source EXCEPT ![th] = s]
         /\ target' = [target EXCEPT ![th] = t]
    /\ op' = [op EXCEPT ![th] = "convert_query"]
    /\ calls' = [calls EXCEPT ![th] = Local("lookup", NoLang, <<>>, <<>>)]
    /\ UNCHANGED <<converters, outcome>>

\* Thread th calls converter.convert_to_all_languages(q, s): "results = {}"
ThreadConvertToAll(th) ==
    /\ op[th] = "idle"
    /\ \E q \in ConcurrentQueries, s \in Languages :
         /\ query' = [query EXCEPT ![th] = q]
         /\ source' = [source EXCEPT ![th] = s]
    /\ op' = [op EXCEPT ![th] = "convert_to_all_languages"]
    /\ calls' = [calls EXCEPT ![th] = Local("loop", NoLang, QueryLanguage, <<>>)]
    /\ UNCHANGED <<converters, target, outcome>>

\* "for target_lang in QueryLanguage: if target_lang != source_lang": the
\* loop goes to its next target and calls convert_query for it, skips the
\* source language, or is over and the results are returned
ThreadLoop(th) ==
    /\ calls[th].pc = "loop"
    /\ LET targets == calls[th].targets
       IN  IF targets = <<>>
           THEN /\ outcome' = [outcome EXCEPT ![th] = Return(calls[th].results)]
                /\ calls' = [calls EXCEPT ![th].pc = "done"]
                /\ UNCHANGED target
           ELSE IF Head(targets) = source[th]
           THEN /\ calls' = [calls EXCEPT ![th].targets = Tail(targets)]
                /\ UNCHANGED <<target, outcome>>
           ELSE /\ target' = [target EXCEPT ![th] = Head(targets)]
                /\ calls' = [calls EXCEPT ![th].pc = "lookup"]
                /\ UNCHANGED outcome
    /\ UNCHANGED <<converters, op, query, source>>

\* What a thread does with the result of its convert_query: the direct call
\* returns or raises it, the loop stores it for the target and goes on
ThreadDeliver(th, result) ==
    IF op[th] = "convert_query"
    THEN /\ outcome' = [outcome EXCEPT ![th] = result]
         /\ calls' = [calls EXCEPT ![th].pc = "done"]
    ELSE /\ calls' = [calls EXCEPT
                        ![th].pc = "loop",
                        ![th].targets = Tail(@),
                        ![th].results =
                            (LangValue(target[th]) :> TargetEntry(result)) @@ @]
         /\ UNCHANGED outcome

\* convert_query up to the lookup: "if source_lang == target_lang: return
\* query", "converter = self.converters.get(...)", "if not converter: raise"
ThreadLookup(th) ==
    /\ calls[th].pc = "lookup"
    /\ LET key == <<source[th], target[th]>>
       IN  IF source[th] = target[th]
           THEN /\ ThreadDeliver(th, Return(Some(query[th])))
                /\ UNCHANGED converters
           ELSE /\ converters' = TableAfterGet(converters, key)
                /\ IF key \in DOMAIN converters
                   THEN /\ calls' = [calls EXCEPT
                                       ![th].pc = "run",
                                       ![th].converter = converters[key]]
                        /\ UNCHANGED outcome
                   ELSE ThreadDeliver(th, NotSupported(source[th], target[th]))
    /\ UNCHANGED <<op, query, source, target>>

\* "result = converter(query)" and "return result", or the exception
ThreadRun(th) ==
    /\ calls[th].pc = "run"
    /\ ThreadDeliver(th, CallConverter(calls[th].converter, query[th]))
    /\ UNCHANGED <<converters, op, query, source, target>>

\* The caller of thread th takes the result; the thread is free again
ThreadTake(th) ==
    /\ calls[th].pc = "done"
    /\ op' = [op EXCEPT ![th] = "idle"]
    /\ query' = [query EXCEPT ![th] = <<>>]
    /\ source' = [source EXCEPT ![th] = NoLang]
    /\ target' = [target EXCEPT ![th] = NoLang]
    /\ outcome' = [outcome EXCEPT ![th] = Return(NoneVal)]
    /\ calls' = [calls EXCEPT ![th] = Local("idle", NoLang, <<>>, <<>>)]
    /\ UNCHANGED converters

NextThreads ==
    \E th \in Threads :
        \/ ThreadConvertQuery(th)
        \/ ThreadConvertToAll(th)
        \/ ThreadLoop(th)
        \/ ThreadLookup(th)
        \/ ThreadRun(th)
        \/ ThreadTake(th)

SpecThreads == InitThreads /\ [][NextThreads]_vars

(***************************************************************************)
(* Properties.  A state with op # "idle" is the state right after the call *)
(* op(query, source, target): outcome is what the call returned or raised. *)
(***************************************************************************)
\* The single clauses f<op>v with a relational operator
RelTerm(f, o, v) == f \o o \o v

\* The lower-case names of the two languages other than lang
OtherNames(lang) ==
    CASE lang = SPL -> {<<"l", "e", "q", "l">>, <<"w", "q", "l">>}
      [] lang = LEQL -> {<<"s", "p", "l">>, <<"w", "q", "l">>}
      [] lang = WQL -> {<<"s", "p", "l">>, <<"l", "e", "q", "l">>}

\* C1: for every language L and every query q, the empty one included,
\* convert_query(q, L, L) returns q unchanged and invokes no parser and no
\* converter.
C1_IdentityReturnsQuery ==
    (op = "convert_query" /\ source = target)
        => (outcome = Return(Some(query)) /\ calls = <<>>)

C1_Witness ==
    /\ op = "convert_query"
    /\ source = WQL
    /\ target = WQL
    /\ query = <<"c", "p", "u", ">", "=", "9", "0">>
    /\ outcome = Return(Some(<<"c", "p", "u", ">", "=", "9", "0">>))
    /\ calls = <<>>

\* C2: for every source language L and every query q,
\* convert_to_all_languages(q, L) returns a mapping whose keys are exactly the
\* lower-case names of the two languages other than L; for L = SPL they are
\* leql and wql, and spl is not among them.
C2_KeysAreTheOtherLanguages ==
    op = "convert_to_all_languages"
        => (~outcome.raised /\ DOMAIN outcome.value = OtherNames(source))

C2_Witness ==
    /\ op = "convert_to_all_languages"
    /\ source = SPL
    /\ query = <<"e", "r", "r", "o", "r">>
    /\ DOMAIN outcome.value = {<<"l", "e", "q", "l">>, <<"w", "q", "l">>}
    /\ <<"s", "p", "l">> \notin DOMAIN outcome.value

\* The value convert_to_all_languages must hold for target t when failures
\* are stored as prefix followed by the message of the error
BatchEntryIs(t, prefix) ==
    outcome.value[LangValue(t)] =
        IF <<source, t>> \in DOMAIN converters
        THEN convert_query(query, source, t).value
        ELSE Some(prefix \o NotSupported(source, t).msg)

C4_WqlConversionsRenderText ==
    /\ (op = "convert_query" /\ source = WQL /\ target # WQL)
         => /\ ~outcome.raised
            /\ outcome.value.some
            /\ \A f \in Fields, o \in RelOps, v \in Values :
                 query = RelTerm(f, o, v)
                   => /\ Contains(outcome.value.v, f)
                      /\ Contains(outcome.value.v, o)
                      /\ Contains(outcome.value.v, v)
    /\ (op = "convert_to_all_languages" /\ source = WQL)
         => /\ ~outcome.raised
            /\ \A key \in DOMAIN outcome.value : outcome.value[key].some

\* C5: for every operator op of =, !=, >, <, >=, <= and every field f and
\* value v without operator characters, ';' or parentheses, _parse_wql of the
\* single clause f<op>v yields exactly one search term, with field f,
\* operator op and value v; cpu>=90 parses as operator >= with value 90.
C5_WqlClauseKeepsItsOperator ==
    op = "_parse_wql"
        => \A f \in Fields, o \in RelOps, v \in Values :
             query = RelTerm(f, o, v)
               => /\ ~outcome.raised
                  /\ Len(outcome.value.search_terms) = 1
                  /\ outcome.value.search_terms[1].field = Some(f)
                  /\ outcome.value.search_terms[1].operator = o
                  /\ outcome.value.search_terms[1].value = v

\* Every character of s is one of chars
OnlyOf(s, chars) == \A i \in DOMAIN s : s[i] \in chars

\* Inputs without any construct of the language.  In SPL every token is a
\* construct (a term or a command), which leaves whitespace and pipes; LEQL
\* knows where( and groupby(; a WQL clause needs time:, an operator or
\* parentheses.
NoSplConstruct(q) == OnlyOf(q, Whitespace \cup {"|"})

NoLeqlConstruct(q) ==
    /\ ~Contains(q, <<"w", "h", "e", "r", "e", "(">>)
    /\ ~Contains(q, <<"g", "r", "o", "u", "p", "b", "y", "(">>)

NoWqlConstruct(q) ==
    /\ \A i \in DOMAIN q : q[i] \notin {"=", ">", "<", "~", "(", ")"}
    /\ ~Contains(q, <<"t", "i", "m", "e", ":">>)

WhereMessageContains(w) ==
    <<"w", "h", "e", "r", "e", " ", "(", "m", "e", "s", "s", "a", "g", "e", " ",
      "c", "o", "n", "t", "a", "i", "n", "s", " ", "'">> \o w \o <<"'", ")">>

\* C7: an SPL query that is a single bare word w parses to exactly one term,
\* the plain string w, converts to the LEQL text where (message contains 'w')
\* and to the WQL text message~w.
C7_BareWord ==
    query \in BareWords
        => /\ op = "_parse_spl"
                => (~outcome.raised
                    /\ outcome.value.search_terms = <<StrTerm(query)>>)
           /\ (op = "convert_query" /\ source = SPL /\ target = LEQL)
                => outcome = Return(Some(WhereMessageContains(query)))
           /\ (op = "convert_query" /\ source = SPL /\ target = WQL)
                => outcome = Return(Some(<<"m", "e", "s", "s", "a", "g", "e", "~">>
                                         \o query))

C7_Witness ==
    /\ op = "convert_query"
    /\ source = SPL
    /\ target = LEQL
    /\ query = <<"e", "r", "r", "o", "r">>
    /\ outcome = Return(Some(<<"w", "h", "e", "r", "e", " ", "(", "m", "e", "s", "s",
                               "a", "g", "e", " ", "c", "o", "n", "t", "a", "i", "n",
                               "s", " ", "'", "e", "r", "r", "o", "r", "'", ")">>))

\* The alphanumeric field names
AlnumFields ==
    {f \in Fields : OnlyOf(f, Range(LowerLetters) \cup Range(UpperLetters) \cup Digits)}

\* C8: for every operator op of =, !=, >, <, >=, <=, the SPL query f<op>v
\* (f alphanumeric, v an unquoted token without operator characters)
\* converts to the LEQL text where (f <op> 'v'), with the same operator and
\* the same value; cpu>=90 gives where (cpu >= '90').
C8_SplTermToLeql ==
    (op = "convert_query" /\ source = SPL /\ target = LEQL)
        => \A f \in AlnumFields, o \in RelOps, v \in Values :
             query = RelTerm(f, o, v)
               => outcome = Return(Some(<<"w", "h", "e", "r", "e", " ", "(">> \o f
                                        \o <<" ">> \o o \o <<" ", "'">> \o v
                                        \o <<"'", ")">>))

MinusRemoved(e) == IF e # <<>> /\ Head(e) = "-" THEN Tail(e) ELSE e

\* The LEQL text the terms of rest alone convert to, after a space
ThenWhereOf(rest) ==
    IF rest = <<>> THEN <<>>
    ELSE <<" ">> \o CallConverter("_spl_to_leql", rest).value.v

\* C10: for an SPL query whose search part holds earliest=E and latest=L,
\* _parse_spl stores E and L verbatim in the time range and leaves the terms
\* of the rest of the query alone in the term list; the LEQL output is
\* from E' to L, E' being E with one leading minus sign removed, followed by
\* the where clause of the remaining terms.
C10_TimeRange ==
    query \in TimedQueries =>
    \A e \in Earliests, l \in Latests, rest \in TimedRests :
      query \in TimedLayouts(e, l, rest)
        => /\ op = "_parse_spl"
                => /\ ~outcome.raised
                   /\ outcome.value.time_range = Some(TimeRange(Some(e), Some(l)))
                   /\ outcome.value.search_terms
                        = _parse_spl(rest).value.search_terms
           /\ (op = "convert_query" /\ source = SPL /\ target = LEQL)
                => outcome = Return(Some(<<"f", "r", "o", "m", " ">>
                                         \o MinusRemoved(e) \o <<" ", "t", "o", " ">>
                                         \o l \o ThenWhereOf(rest)))

C10_Witness ==
    /\ op = "convert_query"
    /\ source = SPL
    /\ target = LEQL
    /\ query = <<"e", "a", "r", "l", "i", "e", "s", "t", "=", "-", "1", "d", " ", "l",
                 "a", "t", "e", "s", "t", "=", "n", "o", "w", " ", "e", "r", "r", "o",
                 "r">>
    /\ outcome = Return(Some(<<"f", "r", "o", "m", " ", "1", "d", " ", "t", "o", " ",
                               "n", "o", "w", " ", "w", "h", "e", "r", "e", " ", "(",
                               "m", "e", "s", "s", "a", "g", "e", " ", "c", "o", "n",
                               "t", "a", "i", "n", "s", " ", "'", "e", "r", "r", "o",
                               "r", "'", ")">>))

\* The SPL query whose search part is p and whose pipeline is the segments
\* segs, each after " | "
RECURSIVE Pipeline(_, _)
Pipeline(p, segs) ==
    IF segs = <<>> THEN p
    ELSE Pipeline(p \o <<" ", "|", " ">> \o Head(segs), Tail(segs))

\* The texts of parts occur in s one after the other, without overlap
RECURSIVE ContainsInOrder(_, _)
ContainsInOrder(s, parts) ==
    IF parts = <<>> THEN TRUE
    ELSE LET i == Find(s, Head(parts), 1)
         IN  /\ i # 0
             /\ ContainsInOrder(Drop(s, i + Len(Head(parts))), Tail(parts))

\* The text a call returned, <<>> if it raised or returned None
TextOf(o) == IF ~o.raised /\ o.value.some THEN o.value.v ELSE <<>>

\* The where clause the search part p converts to, if any
WherePartOf(p) == IF p = <<>> THEN <<>> ELSE <<WhereMessageContains(p)>>

GroupLists ==
    {<<<<"s", "t", "a", "t", "u", "s">>>>,
     <<<<"s", "t", "a", "t", "u", "s">>, <<"h", "o", "s", "t">>>>}

TableLists == {<<<<"s", "t", "a", "t", "u", "s">>, <<"c", "o", "u", "n", "t">>>>}

StatsCountBy(G) ==
    <<"s", "t", "a", "t", "s", " ", "c", "o", "u", "n", "t", " ", "b", "y", " ">>
    \o Join(G, <<" ">>)

TableOf(F) == <<"t", "a", "b", "l", "e", " ">> \o Join(F, <<" ">>)

\* C11: for an SPL query with the pipeline stats count by G1..Gn | table
\* F1..Fm, the LEQL output contains, after the where clause and in this
\* order, calculate(count), groupby(G1, .., Gn) and select (F1, .., Fm), the
\* select listing exactly the table command's field arguments;
\* error | stats count by status | table status count gives
\* calculate(count), groupby(status), select (status, count).
C11_StatsCountThenTable ==
    (op = "convert_query" /\ source = SPL /\ target = LEQL)
        => \A p \in SearchParts, G \in GroupLists, F \in TableLists :
             query = Pipeline(p, <<StatsCountBy(G), TableOf(F)>>)
               => ContainsInOrder(
                    TextOf(outcome),
                    WherePartOf(p)
                    \o <<<<"c", "a", "l", "c", "u", "l", "a", "t", "e", "(", "c",
                           "o", "u", "n", "t", ")">>,
                         <<"g", "r", "o", "u", "p", "b", "y", "(">>
                         \o Join(G, <<",", " ">>) \o <<")">>,
                         <<"s", "e", "l", "e", "c", "t", " ", "(">>
                         \o Join(F, <<",", " ">>) \o <<")">>>>)

\* The segment lists of the pipelines
PipelineSegmentLists == UNION {[1..k -> Segments] : k \in 0..MaxSegments}

\* The commands of a parsed SPL query, none for None
CommandsOf(parsed) == IF parsed.commands.some THEN parsed.commands.v ELSE <<>>

ClauseWords == {<<"B", "Y">>, <<"A", "S">>, <<"L", "O", "O", "K", "U", "P">>}

\* C12: _parse_spl yields one command per non-blank pipe-delimited segment
\* after the first, in source order; for a segment whose first token is not
\* BY, AS or LOOKUP the command's name is the first whitespace token and its
\* args are the remaining tokens in order, without the name;
\* stats count by status gives name stats and args [count, by, status].
C12_CommandNameAndArgs ==
    (op = "_parse_spl")
        => \A p \in SearchParts, segs \in PipelineSegmentLists :
             query = Pipeline(p, segs)
               => LET nonblank == Without(segs, {<<>>})
                      commands == CommandsOf(outcome.value)
                  IN  /\ ~outcome.raised
                      /\ Len(commands) = Len(nonblank)
                      /\ \A i \in DOMAIN nonblank :
                           LET cmd_parts == SplitWS(nonblank[i])
                           IN  Upper(cmd_parts[1]) \notin ClauseWords
                                 => /\ commands[i].name = cmd_parts[1]
                                    /\ commands[i].args = Tail(cmd_parts)

\* The term lists of the mixed search parts
MixedTermLists == UNION {[1..k -> MixedTerms] : k \in 1..MaxTerms}

\* The parsed term term stands for the source token t: a fielded term
\* f<op>v, a wildcard token or a free-text word
Corresponds(term, t) ==
    IF IsSearchTerm(term)
    THEN IF term.is_wildcard THEN term.field = t
         ELSE RelTerm(term.field, term.operator, term.value) = t
    ELSE term.value = t

\* What names the source token t in a rendering: the field of a fielded
\* term, else the token itself
TermKey(t) ==
    LET e == Find(t, <<"=">>, 1)
        g == Find(t, <<">">>, 1)
    IN  IF e # 0 THEN Slice(t, 1, e)
        ELSE IF g # 0 THEN Slice(t, 1, g)
        ELSE t

\* C13: the SPL parser's term sequence is in source-text order and the SPL
\* renderers keep it: for a search part mixing free-text words, wildcard
\* tokens and fielded terms, the i-th emitted term is the i-th term of the
\* source text, in the parsed query, in the LEQL where clause and in the WQL
\* output; error status=404 gives error before status=404.
C13_TermsInSourceOrder ==
    (query \in MixedQueries)
        => \A terms \in MixedTermLists :
             query = Join(terms, <<" ">>)
               => /\ (op = "_parse_spl")
                        => /\ ~outcome.raised
                           /\ Len(outcome.value.search_terms) = Len(terms)
                           /\ \A i \in DOMAIN terms :
                                Corresponds(outcome.value.search_terms[i], terms[i])
                  /\ (op = "convert_query" /\ source = SPL
                        /\ target \in {LEQL, WQL})
                        => ContainsInOrder(TextOf(outcome),
                                           [i \in DOMAIN terms |-> TermKey(terms[i])])

\* The languages whose tag is tag in some letter case
TaggedLanguages(tag) == {l \in Languages : Lower(tag) = LangValue(l)}

\* C14: at POST /query-converter the source-language tag is lower-cased
\* before lookup: a tag equal to spl, leql or wql in any letter case selects
\* that language, and the response carries the per-language mapping of
\* convert_to_all_languages for it; any other tag fails the whole call with
\* an error outcome, no per-language mapping, and no conversion attempted.
C14_TagIsLowerCasedBeforeLookup ==
    (op = "POST /query-converter")
        => LET context == outcome.value
               tag == context.source_language
           IN  /\ \A l \in TaggedLanguages(tag) :
                    /\ DOMAIN context
                         = {"title", "results", "source_language", "query"}
                    /\ context.results = convert_to_all_languages(query, l).value
                    /\ Head(calls) = "convert_to_all_languages"
               /\ TaggedLanguages(tag) = {}
                    => /\ DOMAIN context
                            = {"title", "error", "source_language", "query"}
                       /\ context.error # <<>>
                       /\ calls = <<>>

C14_Witness ==
    /\ op = "POST /query-converter"
    /\ query = <<"e", "r", "r", "o", "r">>
    /\ outcome.value.source_language = <<"L", "e", "Q", "l">>
    /\ outcome.value.results
         = (<<"s", "p", "l">> :> Some(<<>>))
           @@ (<<"w", "q", "l">> :> Some(<<>>))

\* The parse p has no terms, no time range and no commands
EmptyParse(p) ==
    /\ ~p.raised
    /\ p.value.search_terms = <<>>
    /\ ~p.value.time_range.some
    /\ "commands" \in DOMAIN p.value => ~p.value.commands.some

\* The parse of q under the parser of lang
ParseUnder(lang, q) ==
    CASE lang = SPL -> _parse_spl(q)
      [] lang = LEQL -> _parse_leql(q)
      [] lang = WQL -> _parse_wql(q)

\* An empty or near-empty string: nothing but whitespace
NearEmpty(text) == Strip(text) = <<>>

\* C15: for every ordered pair of distinct languages (S, T) and every query
\* q whose parse under S has no terms, no time range and no commands (the
\* empty string and whitespace-only strings included), convert_query(q, S, T)
\* returns an empty or near-empty string and never an error.
C15_EmptyParseRendersEmptyText ==
    (op = "convert_query" /\ source # target)
        => (EmptyParse(ParseUnder(source, query))
              => /\ ~outcome.raised
                 /\ outcome.value.some
                 /\ NearEmpty(outcome.value.v))

\* C16: for every pair of distinct languages (A, B) and every non-empty
\* structured query q of A (at least one fielded term), the two-step
\* conversion convert_query(convert_query(q, A, B), B, A) does not crash and
\* produces a non-empty string; SPL status=404 converted to LEQL and back to
\* SPL is non-empty.
C16_RoundTripIsNonEmpty ==
    (op = "round_trip")
        => /\ ~outcome.raised
           /\ outcome.value.some
           /\ outcome.value.v # <<>>

WqlCommandsNote ==
    <<"(", "N", "o", "t", "e", ":", " ", "W", "Q", "L", " ", "d", "o",
      "e", "s", " ", "n", "o", "t", " ", "s", "u", "p", "p", "o", "r",
      "t", " ", "S", "P", "L", " ", "c", "o", "m", "m", "a", "n", "d",
      "s", ")">>

\* How many times p occurs in s
RECURSIVE Occurrences(_, _)
Occurrences(s, p) ==
    LET i == Find(s, p, 1)
    IN  IF i = 0 THEN 0 ELSE 1 + Occurrences(Drop(s, i + Len(p)), p)

\* q has a non-blank pipeline segment after the first '|'
HasCommandSegment(q) ==
    \E i \in 2..Len(Split(q, <<"|">>)) : Strip(Split(q, <<"|">>)[i]) # <<>>

\* The WQL text of the search part of q alone, the text before the first '|'
SearchPartWql(q) == TextOf(convert_query(Head(Split(q, <<"|">>)), SPL, WQL))

\* C17: for an SPL query, the WQL output ends with the literal note
\* (Note: WQL does not support SPL commands), appended exactly once, if and
\* only if the query has at least one non-blank pipeline segment after the
\* first '|'; the commands contribute no other text: the output is that of
\* the search part alone, followed by the note.
C17_WqlCommandsNote ==
    (op = "convert_query" /\ source = SPL /\ target = WQL)
        => /\ ~outcome.raised
           /\ outcome.value.some
           /\ EndsWith(outcome.value.v, WqlCommandsNote) <=> HasCommandSegment(query)
           /\ Occurrences(outcome.value.v, WqlCommandsNote)
                = (IF HasCommandSegment(query) THEN 1 ELSE 0)
           /\ outcome.value.v
                = Join(Without(<<SearchPartWql(query)>>, {<<>>})
                       \o (IF HasCommandSegment(query)
                           THEN <<WqlCommandsNote>> ELSE <<>>),
                       <<" ">>)

C17_Witness ==
    /\ op = "convert_query"
    /\ source = SPL
    /\ target = WQL
    /\ query = Pipeline(<<"e", "r", "r", "o", "r">>,
                        <<<<>>, StatsCountBy(<<<<"s", "t", "a", "t", "u", "s">>>>)>>)
    /\ outcome = Return(Some(
         <<"m", "e", "s", "s", "a", "g", "e", "~", "e", "r", "r", "o", "r",
           " ", "(", "N", "o", "t", "e", ":", " ", "W", "Q", "L", " ", "d",
           "o", "e", "s", " ", "n", "o", "t", " ", "s", "u", "p", "p", "o",
           "r", "t", " ", "S", "P", "L", " ", "c", "o", "m", "m", "a", "n",
           "d", "s", ")">>))

\* The pipelines of the model that have the segment seg
PipelinesWith(seg) ==
    {Pipeline(p, segs) :
       p \in SearchParts,
       segs \in {l \in PipelineSegmentLists : \E i \in DOMAIN l : l[i] = seg}}

AggregateOps == {<<"a", "v", "g">>, <<"s", "u", "m">>, <<"m", "i", "n">>,
                 <<"m", "a", "x">>}

AggregateFields == {<<"c", "p", "u">>}

\* C18: for every aggregation op of avg, sum, min, max and field F, an SPL
\* pipeline segment stats <op> F (without count) makes the SPL-to-LEQL
\* output contain calculate(<op>:F).
C18_StatsAggregate ==
    (op = "convert_query" /\ source = SPL /\ target = LEQL)
        => \A o \in AggregateOps, F \in AggregateFields :
             query \in PipelinesWith(<<"s", "t", "a", "t", "s", " ">> \o o
                                     \o <<" ">> \o F)
               => Contains(TextOf(outcome),
                           <<"c", "a", "l", "c", "u", "l", "a", "t", "e", "(">>
                           \o o \o <<":">> \o F \o <<")">>)

SortDirections == {<<"d", "e", "s", "c">>, <<"D", "E", "S", "C">>,
                   <<"a", "s", "c">>}

\* C19: for an SPL pipeline segment sort F D, the SPL-to-LEQL output
\* contains sort(desc) when the direction argument D equals desc,
\* case-insensitively, and sort(asc) otherwise: the direction is taken from
\* D, not from the field F or the command name.
C19_SortDirection ==
    (op = "convert_query" /\ source = SPL /\ target = LEQL)
        => \A F \in AggregateFields, D \in SortDirections :
             query \in PipelinesWith(<<"s", "o", "r", "t", " ">> \o F
                                     \o <<" ">> \o D)
               => Contains(TextOf(outcome),
                           IF Lower(D) = <<"d", "e", "s", "c">>
                           THEN <<"s", "o", "r", "t", "(", "d", "e", "s", "c", ")">>
                           ELSE <<"s", "o", "r", "t", "(", "a", "s", "c", ")">>)

Intervals == {<<"1", "h">>}

\* C20: for an SPL pipeline segment timeslice I, the SPL-to-LEQL output
\* contains timeslice(I), where I is the interval argument that follows the
\* command name.
C20_Timeslice ==
    (op = "convert_query" /\ source = SPL /\ target = LEQL)
        => \A I \in Intervals :
             query \in PipelinesWith(<<"t", "i", "m", "e", "s", "l", "i", "c", "e",
                                       " ">> \o I)
               => Contains(TextOf(outcome),
                           <<"t", "i", "m", "e", "s", "l", "i", "c", "e", "(">>
                           \o I \o <<")">>)

LeqlWheres ==
    LeqlOtherWheres
    \cup {LeqlIcontains(F, V) : F \in LeqlTermFields, V \in LeqlTermValues}

WqlGroupingNote ==
    <<"(", "N", "o", "t", "e", ":", " ", "W", "Q", "L", " ", "d", "o",
      "e", "s", " ", "n", "o", "t", " ", "s", "u", "p", "p", "o", "r",
      "t", " ", "g", "r", "o", "u", "p", "i", "n", "g", " ", "o", "p",
      "e", "r", "a", "t", "i", "o", "n", "s", ")">>

\* What the where clause w contributes to the output for lang: F*V* or F~V
\* for where(F ICONTAINS V), nothing otherwise
LeqlTermText(w, lang) ==
    IF \E F \in LeqlTermFields, V \in LeqlTermValues : w = LeqlIcontains(F, V)
    THEN LET FV == CHOOSE fv \in LeqlTermFields \X LeqlTermValues :
                     w = LeqlIcontains(fv[1], fv[2])
         IN  IF lang = SPL THEN FV[1] \o <<"*">> \o FV[2] \o <<"*">>
             ELSE FV[1] \o <<"~">> \o FV[2]
    ELSE <<>>

\* What the groupby clause g contributes: | stats count by G, or the note
LeqlGroupText(g, lang) ==
    IF \E G \in LeqlGroupFields : g = LeqlGroupby(G)
    THEN IF lang = SPL
         THEN <<"|", " ", "s", "t", "a", "t", "s", " ", "c", "o", "u", "n", "t",
                " ", "b", "y", " ">>
              \o (CHOOSE G \in LeqlGroupFields : g = LeqlGroupby(G))
         ELSE WqlGroupingNote
    ELSE <<>>

\* C21: for a LEQL query with where(F ICONTAINS V) and/or groupby(G),
\* LEQL-to-SPL renders the term as F*V* and the groupby as
\* | stats count by G, and LEQL-to-WQL renders the term as F~V and the
\* groupby as the note (Note: WQL does not support grouping operations); a
\* where clause without ICONTAINS and any other LEQL construct contribute
\* nothing to either output, and no error is raised.
C21_LeqlTermAndGroupby ==
    (op = "convert_query" /\ source = LEQL /\ target \in {SPL, WQL}
       /\ query \in LeqlQueries)
        => \A w \in {<<>>} \cup LeqlWheres,
              g \in {<<>>} \cup {LeqlGroupby(G) : G \in LeqlGroupFields},
              o \in {<<>>} \cup LeqlOthers :
             query \in LeqlTexts(w, g, o)
               => outcome
                    = Return(Some(Join(Without(<<LeqlTermText(w, target),
                                                 LeqlGroupText(g, target)>>,
                                               {<<>>}),
                                       <<" ">>)))

C21_Witness ==
    /\ op = "convert_query"
    /\ source = LEQL
    /\ target = SPL
    /\ query = <<"w", "h", "e", "r", "e", "(", "s", "t", "a", "t", "u", "s", " ",
                 "I", "C", "O", "N", "T", "A", "I", "N", "S", " ", "4", "0", "4",
                 ")", " ", "g", "r", "o", "u", "p", "b", "y", "(", "s", "t", "a",
                 "t", "u", "s", ")">>
    /\ outcome = Return(Some(
         <<"s", "t", "a", "t", "u", "s", "*", "4", "0", "4", "*", " ", "|",
           " ", "s", "t", "a", "t", "s", " ", "c", "o", "u", "n", "t", " ",
           "b", "y", " ", "s", "t", "a", "t", "u", "s">>))

\* WQL queries whose time: clause names no bound, or a bound with empty text
WqlUnboundedTimeQueries ==
    {<<"t", "i", "m", "e", ":">> \o t :
        t \in {<<>>, <<" ">>, <<"t", "i", "m", "e", ">", "=">>,
               <<"t", "i", "m", "e", "<", "=", " ">>, <<"x">>}}

\* C22: in the IR returned by each of the three parsers the time range is
\* None whenever no earliest or latest bound with non-empty text was found
\* (an SPL query without earliest= and latest=, every LEQL query, a WQL
\* query without a time: clause or whose time: clause has no bound text),
\* and a time range that is present has at least one non-empty bound.
C22_TimeRangeAbsentOrNonEmpty ==
    (op \in {"_parse_spl", "_parse_leql", "_parse_wql"} /\ ~outcome.raised)
        => LET tr == outcome.value.time_range
           IN  /\ tr.some => (Truthy(tr.v.earliest) \/ Truthy(tr.v.latest))
               /\ (op = "_parse_spl"
                     /\ ~Contains(query, EarliestToken(<<>>))
                     /\ ~Contains(query, LatestToken(<<>>)))
                    => tr = NoneVal
               /\ op = "_parse_leql" => tr = NoneVal
               /\ (op = "_parse_wql"
                     /\ (~Contains(query, <<"t", "i", "m", "e", ":">>)
                          \/ query \in WqlUnboundedTimeQueries))
                    => tr = NoneVal

C22_Witness ==
    /\ op = "_parse_wql"
    /\ query = <<"t", "i", "m", "e", ":", "t", "i", "m", "e", ">", "=">>
    /\ ~outcome.raised
    /\ outcome.value.time_range = NoneVal

ErrorPrefix == <<"E", "r", "r", "o", "r", ":", " ">>

\* C23: a converter is registered for each of the six ordered pairs of
\* distinct languages, so convert_query raises for no (source, target) pair
\* and no query content, and every entry of convert_to_all_languages is the
\* value convert_query returned for that target, never an error text.
C23_EveryPairConverts ==
    /\ \A s \in Languages, t \in Languages :
          s # t => <<s, t>> \in DOMAIN converters
    /\ op = "convert_query" => ~outcome.raised
    /\ op = "convert_to_all_languages"
         => /\ ~outcome.raised
            /\ DOMAIN outcome.value
                 = {LangValue(t) : t \in Languages \ {source}}
            /\ \A t \in Languages \ {source} :
                  LET converted == convert_query(query, source, t)
                      entry == outcome.value[LangValue(t)]
                  IN  /\ ~converted.raised
                      /\ entry = converted.value
                      /\ entry.some => ~StartsWith(entry.v, ErrorPrefix)

C23_Witness ==
    /\ op = "convert_to_all_languages"
    /\ source = LEQL
    /\ query = <<"w", "h", "e", "r", "e", "(", "s", "t", "a", "t", "u", "s", " ",
                 "I", "C", "O", "N", "T", "A", "I", "N", "S", " ", "4", "0", "4",
                 ")", " ", "g", "r", "o", "u", "p", "b", "y", "(", "s", "t", "a",
                 "t", "u", "s", ")">>
    /\ ~outcome.raised
    /\ outcome.value[LangValue(SPL)]
         = Some(<<"s", "t", "a", "t", "u", "s", "*", "4", "0", "4", "*", " ",
                  "|", " ", "s", "t", "a", "t", "s", " ", "c", "o", "u", "n",
                  "t", " ", "b", "y", " ", "s", "t", "a", "t", "u", "s">>)
    /\ outcome.value[LangValue(WQL)]
         = Some(<<"s", "t", "a", "t", "u", "s", "~", "4", "0", "4", " ">>
                \o WqlGroupingNote)

ErrorStatus404 ==
    <<"e", "r", "r", "o", "r", " ", "s", "t", "a", "t", "u", "s", "=",
      "4", "0", "4">>

C25_GroupedClauseTermsAreFlagged ==
    op = "_parse_wql"
        => \A inner \in WqlInnerTerms :
             LET inner_terms == Grouped(_parse_wql(inner).value.search_terms)
                 outside == SearchTerm(Some(<<"a">>), <<"b">>, <<"=">>,
                                       FALSE, FALSE)
             IN  /\ query = WqlGroup(inner)
                      => /\ ~outcome.raised
                         /\ outcome.value.search_terms = inner_terms
                 /\ query = <<"a", "=", "b", ";">> \o WqlGroup(inner)
                      => /\ ~outcome.raised
                         /\ outcome.value.search_terms
                              = <<outside>> \o inner_terms
                 /\ query = <<"(", "s", "t", "a", "t", "u", "s", "=", "4", "0",
                              "4", ")">>
                      => outcome.value.search_terms
                           = <<SearchTerm(Some(<<"s", "t", "a", "t", "u", "s">>),
                                          <<"4", "0", "4">>, <<"=">>, FALSE,
                                          TRUE)>>

\* The LEQL condition expected for one term of BooleanTerms
BooleanClause(t) ==
    IF Contains(t, <<"=">>)
    THEN LET fv == Split(t, <<"=">>)
         IN  fv[1] \o <<" ", "=", " ", "'">> \o fv[2] \o <<"'">>
    ELSE <<"m", "e", "s", "s", "a", "g", "e", " ", "c", "o", "n", "t", "a", "i",
           "n", "s", " ", "'">> \o t \o <<"'">>

\* The indices of s at which p occurs
OccursAt(s, p) == {i \in 1..Len(s) : StartsWithAt(s, p, i)}

WhereOf(clauses) ==
    <<"w", "h", "e", "r", "e", " ", "(">>
    \o Join(clauses, <<" ", "A", "N", "D", " ">>) \o <<")">>

\* C26: the LEQL text of an SPL query has at most one where clause; the terms
\* of the search part, separated by ' AND ', ' OR ' or a space, are joined
\* by ' AND ' inside one where (...), and there is no where clause when the
\* search part has no terms; status=404 OR status=500 gives
\* where (status = '404' AND status = '500').
C26_OneWhereClause ==
    (op = "convert_query" /\ source = SPL /\ target = LEQL)
        => /\ ~outcome.raised
           /\ outcome.value.some
           /\ Cardinality(OccursAt(outcome.value.v,
                                   <<"w", "h", "e", "r", "e", " ", "(">>)) <= 1
           /\ _parse_spl(query).value.search_terms = <<>>
                => OccursAt(outcome.value.v, <<"w", "h", "e", "r", "e">>) = {}
           /\ \A t1 \in BooleanTerms :
                 /\ query = t1
                      => outcome.value.v = WhereOf(<<BooleanClause(t1)>>)
                 /\ \A t2 \in BooleanTerms, w \in BooleanWords \cup {<<" ">>} :
                       query = t1 \o w \o t2
                         => outcome.value.v
                              \in {WhereOf(<<BooleanClause(t1), BooleanClause(t2)>>),
                                   WhereOf(<<BooleanClause(t2), BooleanClause(t1)>>)}

C26_Witness ==
    /\ op = "convert_query"
    /\ source = SPL
    /\ target = LEQL
    /\ query = <<"s", "t", "a", "t", "u", "s", "=", "4", "0", "4", " ", "O", "R",
                 " ", "s", "t", "a", "t", "u", "s", "=", "5", "0", "0">>
    /\ outcome = Return(Some(
         <<"w", "h", "e", "r", "e", " ", "(", "s", "t", "a", "t", "u", "s", " ",
           "=", " ", "'", "4", "0", "4", "'", " ", "A", "N", "D", " ", "s", "t",
           "a", "t", "u", "s", " ", "=", " ", "'", "5", "0", "0", "'", ")">>))

\* The WQL time text for the bounds e and l, each a sequence of at most one
\* text: time: time>=E;time<=L, or only the part that is present
WqlTimeText(e, l) ==
    <<"t", "i", "m", "e", ":", " ">>
    \o Join([i \in DOMAIN e |-> <<"t", "i", "m", "e", ">", "=">> \o e[i]]
            \o [i \in DOMAIN l |-> <<"t", "i", "m", "e", "<", "=">> \o l[i]],
            <<";">>)

\* text is the time text alone when there are no terms, and otherwise begins
\* with the time text followed by a space
BeginsWithTimeText(text, e, l, rest) ==
    IF rest = <<>> THEN text = WqlTimeText(e, l)
    ELSE StartsWith(text, WqlTimeText(e, l) \o <<" ">>)

\* C27: the WQL text of an SPL query with a time range begins with
\* time: time>=E;time<=L (only the earliest part when latest is absent, only
\* the latest part when earliest is absent), with nothing added before it
\* and nothing but the separating space between it and the term clauses,
\* whether or not the query has search terms.
C27_TimeTextComesFirstUnchanged ==
    (op = "convert_query" /\ source = SPL /\ target = WQL
       /\ query \in TimedQueries \cup HalfTimedQueries)
        => /\ ~outcome.raised
           /\ outcome.value.some
           /\ \A rest \in TimedRests :
                 /\ \A e \in Earliests :
                       /\ \A l \in Latests :
                             query \in TimedLayouts(e, l, rest)
                               => BeginsWithTimeText(outcome.value.v,
                                                     <<e>>, <<l>>, rest)
                       /\ query = Join(Without(<<EarliestToken(e), rest>>,
                                               {<<>>}), <<" ">>)
                            => BeginsWithTimeText(outcome.value.v,
                                                  <<e>>, <<>>, rest)
                 /\ \A l \in Latests :
                       query = Join(Without(<<LatestToken(l), rest>>, {<<>>}),
                                    <<" ">>)
                         => BeginsWithTimeText(outcome.value.v, <<>>, <<l>>, rest)

\* No search term of the list has a field that contains the text time
NoTimeField(search_terms) ==
    \A i \in DOMAIN search_terms :
        (IsSearchTerm(search_terms[i]) /\ search_terms[i].field.some)
            => ~Contains(search_terms[i].field.v, <<"t", "i", "m", "e">>)

\* The WQL text w, parsed by the WQL parser, has the time range (e, l) and no
\* term on time
ReadsBackAs(w, e, l) ==
    /\ ~_parse_wql(w).raised
    /\ _parse_wql(w).value.time_range = Some(TimeRange(Some(e), Some(l)))
    /\ NoTimeField(_parse_wql(w).value.search_terms)

\* C30: for an SPL query with earliest=E and latest=L, with or without
\* search terms, the WQL parser reads the text convert_query(q, SPL, WQL) as
\* a time range with earliest E and latest L and no search term whose field
\* contains the text time.
C30_WqlTimeTextReadsBack ==
    (op = "convert_query" /\ source = SPL /\ target = WQL
       /\ query \in TimedQueries)
        => /\ ~outcome.raised
           /\ outcome.value.some
           /\ \A e \in Earliests, l \in Latests, rest \in TimedRests :
                 query \in TimedLayouts(e, l, rest)
                   => ReadsBackAs(outcome.value.v, e, l)

\* Each active call of _parse_wql has a strictly shorter argument than the
\* call that made it
ShorterArguments ==
    op = WqlRunning
        => \A i \in 2..Len(calls) :
             Len(calls[i].query) < Len(calls[i - 1].query)

\* C28: a call of the WQL parser terminates on every input, parentheses
\* nested or unbalanced included: each recursive call receives a strictly
\* shorter string than its caller, every started call eventually returns,
\* and it returns what _parse_wql computes for the query.
C28_WqlParseTerminates ==
    /\ [](ShorterArguments)
    /\ [](op = "_parse_wql" => outcome = _parse_wql(query))
    /\ (op = WqlRunning) ~> (op = "_parse_wql")

C28_Witness ==
    /\ op = WqlRunning
    /\ query = <<"(", "(", "(", ")", ")", ")">>
    /\ Len(calls) = 4
    /\ calls[4].query = <<>>
    /\ calls[4].parts = <<>>

\* C29: concurrent calls on one QueryConverter are independent: the table
\* of converters stays as __init__ built it, and under every interleaving
\* a finished convert_query or convert_to_all_languages call has the result
\* the same call gives when it runs alone on the same arguments.
C29_CallsAreIndependent ==
    /\ converters = InitConverters
    /\ \A th \in Threads :
          calls[th].pc = "done"
            => IF op[th] = "convert_query"
               THEN outcome[th] = convert_query(query[th], source[th], target[th])
               ELSE outcome[th] = convert_to_all_languages(query[th], source[th])

C29_Witness ==
    /\ op[1] = "convert_query"
    /\ calls[1].pc = "done"
    /\ query[1] = <<"s", "t", "a", "t", "u", "s", "=", "4", "0", "4">>
    /\ source[1] = SPL
    /\ target[1] = WQL
    /\ outcome[1] = Return(Some(<<"s", "t", "a", "t", "u", "s", "=", "4", "0", "4">>))
    /\ op[2] = "convert_to_all_languages"
    /\ calls[2].pc = "run"
    /\ query[2] = LeqlIcontains(<<"a">>, <<"b">>)
    /\ source[2] = LEQL
    /\ target[2] = WQL
    /\ calls[2].results
         = (LangValue(SPL) :> Some(<<"a", "*", "b", "*">>))
=============================================================================
